---- MODULE Spec2Model ----
(***************************************************************************)
(* Tiered commitment tree (tct): the frontier tier, the frontier leaf and  *)
(* the complete tier of src/tct/src/internal, with the nodes, the items    *)
(* and the tree facade around them.  Hashes are symbolic terms, so two     *)
(* hashes are equal exactly when they were computed from equal inputs.     *)
(* Heights are carried in the records: the source carries them in types.   *)
(***************************************************************************)
EXTENDS Integers, Sequences, FiniteSets, TLC

\* Children of an internal node (Hash::node takes four child hashes).
Arity == 4
\* Levels of nodes in one tier (eight in the source; scaled down here).
TierDepth == 1
\* Commitments are 1..NumCommitments.
NumCommitments == 2
\* Budget of calls that grow the tree: successful insertions and seals.
MaxOps == 5
\* Budget of witnessed items inserted into the single tier of TierSpec.
MaxTierKeeps == 2
\* Budget of to_writer passes against the storage.
MaxPasses == 2
\* Budget of insertions and seals on a tree that is written to storage.
MaxStoredOps == 3
\* Budget of insertions and seals on a tree that is read back point by point.
MaxReadOps == 3

Commitments == 1..NumCommitments

RECURSIVE Pow(_, _)
Pow(b, n) == IF n = 0 THEN 1 ELSE b * Pow(b, n - 1)

\* Option<T>
None == <<>>
Some(x) == <<x>>
IsSome(o) == Len(o) = 1
Unwrap(o) == o[1]

(***************************************************************************)
(* Hash primitives                                                         *)
(***************************************************************************)
Zero == <<"zero">>
One == <<"one">>
Uninitialized == <<"uninitialized">>
HashOf(item) == <<"of", item>>
HashNode(height, a, b, c, d) == <<"node", height, a, b, c, d>>

\* Forgotten::next
ForgottenNext(v) == v + 1
ForgottenDefault == 0

\* CachedHash: an empty cell or a set one
CacheEmpty == <<>>
CacheSet(h) == <<h>>

\* Insert<T> = Keep(T) | Hash(Hash)
Keep(v) == [tag |-> "Keep", v |-> v]
HashOnly(h) == [tag |-> "Hash", h |-> h]
IsKeep(ins) == ins.tag = "Keep"

\* Result<Self, Full<Self>> of insert_owned
Ok(this) == [ok |-> TRUE, this |-> this]
Full(item, complete) == [ok |-> FALSE, item |-> item, complete |-> complete]

(***************************************************************************)
(* Items: the leaves of the innermost tier                                 *)
(***************************************************************************)
ItemKeep(c) == [k |-> "Item", keep |-> TRUE, c |-> c, h |-> HashOf(c)]
ItemHash(h) == [k |-> "Item", keep |-> FALSE, c |-> 0, h |-> h]
CompleteItem(c, h) == [k |-> "CItem", c |-> c, h |-> h]

ItemFinalizeOwned(self) ==
    IF self.keep THEN Keep(CompleteItem(self.c, self.h)) ELSE HashOnly(self.h)

ItemWitness(self, index) ==
    IF self.keep THEN Some([path |-> <<>>, leaf |-> self.h]) ELSE None

\* Mutant: a forgotten item loses the hash of its commitment
ItemForget_LosesHash(self, forgotten, index) ==
    IF self.keep THEN [this |-> ItemHash(Zero), did |-> TRUE]
    ELSE [this |-> self, did |-> FALSE]

ItemForget(self, forgotten, index) ==
    IF self.keep THEN [this |-> ItemHash(self.h), did |-> TRUE]
    ELSE [this |-> self, did |-> FALSE]

CompleteItemForgetOwned(self, forgotten, index) ==
    [ins |-> HashOnly(self.h), did |-> TRUE]

(***************************************************************************)
(* Dispatch over the kinds of subtree (the traits GetHash, Focus,          *)
(* Frontier, Witness, GetPosition, Forget, ForgetOwned, Height)            *)
(***************************************************************************)
RECURSIVE Height(_)
RECURSIVE GetHash(_)
RECURSIVE WithHash(_)
RECURSIVE FinalizeOwned(_)
RECURSIVE InsertOwned(_, _)
RECURSIVE IsFull(_)
RECURSIVE Witness(_, _)
RECURSIVE Position(_)
RECURSIVE Forget(_, _, _)
RECURSIVE ForgetOwned(_, _, _)
RECURSIVE NestedNew(_, _)
RECURSIVE CachedHashOf(_)

InsertGetHash(ins) == IF IsKeep(ins) THEN GetHash(ins.v) ELSE ins.h
InsertWithHash(ins) == IF IsKeep(ins) THEN Keep(WithHash(ins.v)) ELSE ins

\* WhichWay::at: the child an index goes through at a height, and the index
\* within that child
WhichWay(height, index) == (index \div Pow(Arity, height - 1)) % Arity
IndexBelow(height, index) == index % Pow(Arity, height - 1)

\* The three sibling hashes of child `which` among the four child hashes
Others(hs, which) == [i \in 1..3 |-> IF i <= which THEN hs[i] ELSE hs[i + 1]]

StampAt(forgotten, which, did, version) ==
    IF did /\ IsSome(version)
    THEN [forgotten EXCEPT ![which + 1] = ForgottenNext(Unwrap(version))]
    ELSE forgotten

(***************************************************************************)
(* Complete nodes and leaves                                               *)
(***************************************************************************)
CompleteLeaf(item) == [k |-> "CLeaf", item |-> item]

CompleteNodeHashes(self) == [i \in 1..4 |-> InsertGetHash(self.children[i])]

CompleteNodeGetHash(self) ==
    IF self.hash # CacheEmpty THEN self.hash[1]
    ELSE LET hs == CompleteNodeHashes(self)
         IN  HashNode(self.height, hs[1], hs[2], hs[3], hs[4])

CompleteNodeCachedHash(self) == self.hash

CompleteNodeWithHash(self) ==
    IF self.hash # CacheEmpty THEN self
    ELSE LET kids == [i \in 1..4 |-> InsertWithHash(self.children[i])]
             hs == [i \in 1..4 |-> InsertGetHash(kids[i])]
         IN  [self EXCEPT !.children = kids,
                          !.hash = CacheSet(HashNode(self.height, hs[1], hs[2], hs[3], hs[4]))]

\* complete::Node::from_children_or_else_hash
FromChildrenOrElseHash(height, forgotten, children) ==
    IF \E i \in 1..4 : IsKeep(children[i])
    THEN Keep([k |-> "CNode", height |-> height, children |-> children,
               hash |-> CacheEmpty, forgotten |-> forgotten])
    ELSE HashOnly(HashNode(height, children[1].h, children[2].h,
                           children[3].h, children[4].h))

\* complete::Node::from_siblings_and_focus_or_else_hash: absent children are
\* padded with the hash one
FromSiblingsAndFocusOrElseHash(height, forgotten, siblings, focus) ==
    LET present == Append(siblings, focus)
        children == [i \in 1..4 |-> IF i <= Len(present) THEN present[i]
                                    ELSE HashOnly(One)]
    IN  FromChildrenOrElseHash(height, forgotten, children)

CompleteNodeWitness(self, index) ==
    LET which == WhichWay(self.height, index)
        child == self.children[which + 1]
        below == IF IsKeep(child)
                 THEN Witness(child.v, IndexBelow(self.height, index))
                 ELSE None
    IN  IF IsSome(below)
        THEN Some([path |-> <<Others(CompleteNodeHashes(self), which)>> \o below[1].path,
                   leaf |-> below[1].leaf])
        ELSE None

CompleteNodeForgetOwned(self, forgotten, index) ==
    LET which == WhichWay(self.height, index)
        child == self.children[which + 1]
        r == IF IsKeep(child)
             THEN ForgetOwned(child.v, forgotten, IndexBelow(self.height, index))
             ELSE [ins |-> child, did |-> FALSE]
        children == [self.children EXCEPT ![which + 1] = r.ins]
    IN  IF \E i \in 1..4 : IsKeep(children[i])
        THEN [ins |-> Keep([self EXCEPT !.children = children,
                                        !.forgotten = StampAt(self.forgotten, which, r.did, forgotten)]),
              did |-> r.did]
        ELSE [ins |-> HashOnly(CompleteNodeGetHash(self)), did |-> r.did]

CompleteLeafForgetOwned(self, forgotten, index) ==
    LET r == ForgetOwned(self.item, forgotten, index)
    IN  [ins |-> IF IsKeep(r.ins) THEN Keep(CompleteLeaf(r.ins.v)) ELSE r.ins,
         did |-> r.did]

(***************************************************************************)
(* Frontier leaf (frontier/leaf.rs)                                        *)
(***************************************************************************)
LeafNew(item) == [k |-> "FLeaf", item |-> item]

LeafCachedHash(self) == CachedHashOf(self.item)

\* Mutant: the leaf answers from the item's cache alone
LeafGetHash_CachedOnly(self) ==
    IF IsSome(LeafCachedHash(self)) THEN Unwrap(LeafCachedHash(self)) ELSE Zero

LeafGetHash(self) == GetHash(self.item)

\* Mutant: a finalized leaf keeps only the hash of its item
LeafFinalizeOwned_HashOnly(self) == HashOnly(GetHash(self.item))

LeafFinalizeOwned(self) ==
    LET r == FinalizeOwned(self.item)
    IN  IF IsKeep(r) THEN Keep(CompleteLeaf(r.v)) ELSE r

\* Mutant: a leaf that takes the new item in place of its own
LeafInsertOwned_Replaces(self, item) == Ok(LeafNew(item))

\* Insertion into a leaf always fails
LeafInsertOwned(self, item) == Full(item, LeafFinalizeOwned(self))

LeafIsFull(self) == TRUE

LeafWitness(self, index) == Witness(self.item, index)

LeafPosition(self) == Position(self.item)

LeafForget(self, forgotten, index) ==
    LET r == Forget(self.item, forgotten, index)
    IN  [this |-> [self EXCEPT !.item = r.this], did |-> r.did]

(***************************************************************************)
(* Frontier node: up to three complete siblings and the focus              *)
(***************************************************************************)
NodeFromParts(height, forgotten, siblings, focus) ==
    [k |-> "FNode", height |-> height, siblings |-> siblings, focus |-> focus,
     hash |-> CacheEmpty, forgotten |-> forgotten]

NodeNew(focus) ==
    NodeFromParts(Height(focus) + 1, [i \in 1..4 |-> ForgottenDefault], <<>>, focus)

\* The four child hashes: siblings, focus, then zero padding
NodeHashes(self) ==
    [i \in 1..4 |-> IF i <= Len(self.siblings) THEN InsertGetHash(self.siblings[i])
                    ELSE IF i = Len(self.siblings) + 1 THEN GetHash(self.focus)
                    ELSE Zero]

NodeGetHash(self) ==
    IF self.hash # CacheEmpty THEN self.hash[1]
    ELSE LET hs == NodeHashes(self)
         IN  HashNode(self.height, hs[1], hs[2], hs[3], hs[4])

NodeCachedHash(self) == self.hash

NodeWithHash(self) ==
    IF self.hash # CacheEmpty THEN self
    ELSE LET filled == [self EXCEPT
                          !.siblings = [i \in 1..Len(self.siblings) |->
                                            InsertWithHash(self.siblings[i])],
                          !.focus = WithHash(self.focus)]
             hs == NodeHashes(filled)
         IN  [filled EXCEPT !.hash = CacheSet(HashNode(self.height, hs[1], hs[2], hs[3], hs[4]))]

NodeFinalizeOwned(self) ==
    FromSiblingsAndFocusOrElseHash(self.height, self.forgotten, self.siblings,
                                   FinalizeOwned(self.focus))

NodeInsertOwned(self, item) ==
    LET r == InsertOwned(self.focus, item)
    IN  IF r.ok
        THEN Ok(NodeFromParts(self.height, self.forgotten, self.siblings, r.this))
        ELSE IF Len(self.siblings) < Arity - 1
        THEN Ok(NodeFromParts(self.height, self.forgotten,
                              Append(self.siblings, r.complete),
                              NestedNew(r.item, self.height - 1 - Height(r.item))))
        ELSE Full(r.item,
                  FromSiblingsAndFocusOrElseHash(self.height, self.forgotten,
                                                 self.siblings, r.complete))

NodeIsFull(self) == Len(self.siblings) = Arity - 1 /\ IsFull(self.focus)

NodeWitness(self, index) ==
    LET which == WhichWay(self.height, index)
        rest == IndexBelow(self.height, index)
        n == Len(self.siblings)
        below == IF which < n
                 THEN IF IsKeep(self.siblings[which + 1])
                      THEN Witness(self.siblings[which + 1].v, rest)
                      ELSE None
                 ELSE IF which = n THEN Witness(self.focus, rest)
                 ELSE None
    IN  IF IsSome(below)
        THEN Some([path |-> <<Others(NodeHashes(self), which)>> \o below[1].path,
                   leaf |-> below[1].leaf])
        ELSE None

NodePosition(self) ==
    LET capacity == Pow(Arity, self.height - 1)
        n == Len(self.siblings)
        focus == Position(self.focus)
    IN  IF IsSome(focus) THEN Some(n * capacity + Unwrap(focus))
        ELSE IF n + 1 < Arity THEN Some((n + 1) * capacity)
        ELSE None

NodeForget(self, forgotten, index) ==
    LET which == WhichWay(self.height, index)
        rest == IndexBelow(self.height, index)
        n == Len(self.siblings)
    IN  IF which < n
        THEN LET sib == self.siblings[which + 1]
                 r == IF IsKeep(sib) THEN ForgetOwned(sib.v, forgotten, rest)
                      ELSE [ins |-> sib, did |-> FALSE]
             IN  [this |-> [self EXCEPT
                              !.siblings[which + 1] = r.ins,
                              !.forgotten = StampAt(self.forgotten, which, r.did, forgotten)],
                  did |-> r.did]
        ELSE IF which = n
        THEN LET r == Forget(self.focus, forgotten, rest)
             IN  [this |-> [self EXCEPT
                              !.focus = r.this,
                              !.forgotten = StampAt(self.forgotten, which, r.did, forgotten)],
                  did |-> r.did]
        ELSE [this |-> self, did |-> FALSE]

NestedNew(item, levels) ==
    IF levels = 0 THEN LeafNew(item) ELSE NodeNew(NestedNew(item, levels - 1))

(***************************************************************************)
(* Frontier tier (frontier/tier.rs)                                        *)
(***************************************************************************)
InnerFrontier(frontier) == [tag |-> "Frontier", v |-> frontier]
InnerComplete(complete) == [tag |-> "Complete", v |-> complete]
InnerHash(hash) == [tag |-> "Hash", h |-> hash]

MkTier(height, inner) == [k |-> "Tier", height |-> height, inner |-> inner]

\* impl From<Hash> for Tier
TierFromHash(height, hash) == MkTier(height, InnerHash(hash))

TierNew(item) ==
    MkTier(Height(item) + TierDepth, InnerFrontier(NestedNew(item, TierDepth)))

\* Mutant: a full frontier is finalized when an insertion is refused
TierInsertOwned_AutoSeals(self, item) ==
    IF self.inner.tag \in {"Complete", "Hash"}
    THEN [ok |-> FALSE, item |-> item, this |-> self, panic |-> FALSE]
    ELSE IF IsFull(self.inner.v)
    THEN LET f == FinalizeOwned(self.inner.v)
         IN  [ok |-> FALSE, item |-> item,
              this |-> MkTier(self.height, IF IsKeep(f) THEN InnerComplete(f.v)
                                           ELSE InnerHash(f.h)),
              panic |-> FALSE]
    ELSE LET r == InsertOwned(self.inner.v, item)
         IN  IF r.ok
             THEN [ok |-> TRUE, item |-> item,
                   this |-> MkTier(self.height, InnerFrontier(r.this)), panic |-> FALSE]
             ELSE [ok |-> FALSE, item |-> item, this |-> self, panic |-> TRUE]

TierInsertOwned(self, item) ==
    IF self.inner.tag \in {"Complete", "Hash"}
    THEN [ok |-> FALSE, item |-> item, this |-> self, panic |-> FALSE]
    ELSE IF IsFull(self.inner.v)
    THEN [ok |-> FALSE, item |-> item,
          this |-> MkTier(self.height, InnerFrontier(self.inner.v)), panic |-> FALSE]
    ELSE LET r == InsertOwned(self.inner.v, item)
         IN  IF r.ok
             THEN [ok |-> TRUE, item |-> item,
                   this |-> MkTier(self.height, InnerFrontier(r.this)), panic |-> FALSE]
             ELSE [ok |-> FALSE, item |-> item, this |-> self, panic |-> TRUE]

\* Tier::insert: the inside is swapped for Hash(zero) while insert_owned runs
\* on the old inside, and whatever insert_owned hands back is put in its place
TierInsert(self, item) ==
    LET inner == self.inner
        swapped == [self EXCEPT !.inner = InnerHash(Zero)]
        r == TierInsertOwned([swapped EXCEPT !.inner = inner], item)
    IN  [ok |-> r.ok, item |-> r.item, this |-> r.this, panic |-> r.panic]

\* Mutant: only a frontier can be full
TierIsFull_FrontierOnly(self) ==
    IF self.inner.tag = "Frontier" THEN IsFull(self.inner.v) ELSE FALSE

TierIsFull(self) ==
    IF self.inner.tag = "Frontier" THEN IsFull(self.inner.v) ELSE TRUE

\* Mutant: no tier reports itself finalized
TierIsFinalized_Never(self) == FALSE

TierIsFinalized(self) == self.inner.tag # "Frontier"

TierFinalize(self) ==
    LET already_finalized == TierIsFinalized(self)
        inner == IF self.inner.tag = "Frontier"
                 THEN LET r == FinalizeOwned(self.inner.v)
                      IN  IF IsKeep(r) THEN InnerComplete(r.v) ELSE InnerHash(r.h)
                 ELSE self.inner
    IN  [this |-> [self EXCEPT !.inner = inner], result |-> already_finalized]

TierGetHash(self) ==
    IF self.inner.tag = "Hash" THEN self.inner.h ELSE GetHash(self.inner.v)

TierCachedHash(self) ==
    IF self.inner.tag = "Hash" THEN Some(self.inner.h) ELSE CachedHashOf(self.inner.v)

TierWithHash(self) ==
    IF self.inner.tag = "Hash" THEN self
    ELSE [self EXCEPT !.inner.v = WithHash(self.inner.v)]

CompleteTier(inner) == [k |-> "CTier", inner |-> inner]

TierFinalizeOwned(self) ==
    IF self.inner.tag = "Frontier"
    THEN LET r == FinalizeOwned(self.inner.v)
         IN  IF IsKeep(r) THEN Keep(CompleteTier(r.v)) ELSE HashOnly(r.h)
    ELSE IF self.inner.tag = "Complete" THEN Keep(CompleteTier(self.inner.v))
    ELSE HashOnly(self.inner.h)

\* Mutant: only a frontier is descended into
TierWitness_FrontierOnly(self, index) ==
    IF self.inner.tag = "Frontier" THEN Witness(self.inner.v, index) ELSE None

TierWitness(self, index) ==
    IF self.inner.tag = "Hash" THEN None ELSE Witness(self.inner.v, index)

\* Mutant: a finalized tier reports the position of an empty one
TierPosition_FinalizedIsZero(self) ==
    IF self.inner.tag = "Frontier" THEN Position(self.inner.v) ELSE Some(0)

TierPosition(self) ==
    IF self.inner.tag = "Frontier" THEN Position(self.inner.v) ELSE None

\* Mutant: a complete tier that collapses keeps the swapped-in zero hash
TierForget_LeavesPlaceholder(self, forgotten, index) ==
    IF self.inner.tag = "Frontier"
    THEN LET r == Forget(self.inner.v, forgotten, index)
         IN  [this |-> [self EXCEPT !.inner = InnerFrontier(r.this)], did |-> r.did]
    ELSE IF self.inner.tag = "Complete"
    THEN LET r == ForgetOwned(self.inner.v, forgotten, index)
         IN  [this |-> [self EXCEPT !.inner = IF IsKeep(r.ins) THEN InnerComplete(r.ins.v)
                                              ELSE InnerHash(Zero)],
              did |-> r.did]
    ELSE [this |-> self, did |-> FALSE]

\* Mutant: a hash tier is left with the zero hash swapped in for the call
TierForget_HashNotPutBack(self, forgotten, index) ==
    IF self.inner.tag = "Frontier"
    THEN LET r == Forget(self.inner.v, forgotten, index)
         IN  [this |-> [self EXCEPT !.inner = InnerFrontier(r.this)], did |-> r.did]
    ELSE IF self.inner.tag = "Complete"
    THEN LET r == ForgetOwned(self.inner.v, forgotten, index)
         IN  [this |-> [self EXCEPT !.inner = IF IsKeep(r.ins) THEN InnerComplete(r.ins.v)
                                              ELSE InnerHash(r.ins.h)],
              did |-> r.did]
    ELSE [this |-> [self EXCEPT !.inner = InnerHash(Zero)], did |-> FALSE]

TierForget(self, forgotten, index) ==
    IF self.inner.tag = "Frontier"
    THEN LET r == Forget(self.inner.v, forgotten, index)
         IN  [this |-> [self EXCEPT !.inner = InnerFrontier(r.this)], did |-> r.did]
    ELSE IF self.inner.tag = "Complete"
    THEN LET r == ForgetOwned(self.inner.v, forgotten, index)
         IN  [this |-> [self EXCEPT !.inner = IF IsKeep(r.ins) THEN InnerComplete(r.ins.v)
                                              ELSE InnerHash(r.ins.h)],
              did |-> r.did]
    ELSE [this |-> self, did |-> FALSE]

(***************************************************************************)
(* Complete tier (complete/tier.rs)                                        *)
(***************************************************************************)
CompleteTierGetHash(self) == GetHash(self.inner)

\* Mutant: a complete tier never witnesses
CompleteTierWitness_None(self, index) == None

CompleteTierWitness(self, index) == Witness(self.inner, index)

\* Mutant: a complete tier that collapses hands up the hash of an empty tier
CompleteTierForgetOwned_AsEmpty(self, forgotten, index) ==
    LET r == ForgetOwned(self.inner, forgotten, index)
    IN  [ins |-> IF IsKeep(r.ins) THEN Keep(CompleteTier(r.ins.v)) ELSE HashOnly(One),
         did |-> r.did]

CompleteTierForgetOwned(self, forgotten, index) ==
    LET r == ForgetOwned(self.inner, forgotten, index)
    IN  [ins |-> IF IsKeep(r.ins) THEN Keep(CompleteTier(r.ins.v)) ELSE r.ins,
         did |-> r.did]

(***************************************************************************)
(* The dispatchers                                                         *)
(***************************************************************************)
Height(x) ==
    CASE x.k \in {"Item", "CItem"} -> 0
      [] x.k \in {"FLeaf", "CLeaf"} -> Height(x.item)
      [] x.k \in {"FNode", "CNode", "Tier"} -> x.height
      [] x.k = "CTier" -> Height(x.inner)

GetHash(x) ==
    CASE x.k \in {"Item", "CItem"} -> x.h
      [] x.k = "FLeaf" -> LeafGetHash(x)
      [] x.k = "CLeaf" -> GetHash(x.item)
      [] x.k = "FNode" -> NodeGetHash(x)
      [] x.k = "CNode" -> CompleteNodeGetHash(x)
      [] x.k = "Tier" -> TierGetHash(x)
      [] x.k = "CTier" -> CompleteTierGetHash(x)

CachedHashOf(x) ==
    CASE x.k \in {"Item", "CItem"} -> Some(x.h)
      [] x.k \in {"FLeaf"} -> LeafCachedHash(x)
      [] x.k \in {"CLeaf"} -> CachedHashOf(x.item)
      [] x.k = "FNode" -> NodeCachedHash(x)
      [] x.k = "CNode" -> CompleteNodeCachedHash(x)
      [] x.k = "Tier" -> TierCachedHash(x)
      [] x.k = "CTier" -> CachedHashOf(x.inner)

\* The subtree after hash() has been called on it: every cache that the call
\* went through is set
WithHash(x) ==
    CASE x.k \in {"Item", "CItem"} -> x
      [] x.k \in {"FLeaf", "CLeaf"} -> [x EXCEPT !.item = WithHash(x.item)]
      [] x.k = "FNode" -> NodeWithHash(x)
      [] x.k = "CNode" -> CompleteNodeWithHash(x)
      [] x.k = "Tier" -> TierWithHash(x)
      [] x.k = "CTier" -> [x EXCEPT !.inner = WithHash(x.inner)]

FinalizeOwned(x) ==
    CASE x.k = "Item" -> ItemFinalizeOwned(x)
      [] x.k = "FLeaf" -> LeafFinalizeOwned(x)
      [] x.k = "FNode" -> NodeFinalizeOwned(x)
      [] x.k = "Tier" -> TierFinalizeOwned(x)

InsertOwned(x, item) ==
    CASE x.k = "FLeaf" -> LeafInsertOwned(x, item)
      [] x.k = "FNode" -> NodeInsertOwned(x, item)

IsFull(x) ==
    CASE x.k = "FLeaf" -> LeafIsFull(x)
      [] x.k = "FNode" -> NodeIsFull(x)
      [] x.k = "Tier" -> TierIsFull(x)

Witness(x, index) ==
    CASE x.k = "Item" -> ItemWitness(x, index)
      [] x.k = "CItem" -> Some([path |-> <<>>, leaf |-> x.h])
      [] x.k = "FLeaf" -> LeafWitness(x, index)
      [] x.k = "CLeaf" -> Witness(x.item, index)
      [] x.k = "FNode" -> NodeWitness(x, index)
      [] x.k = "CNode" -> CompleteNodeWitness(x, index)
      [] x.k = "Tier" -> TierWitness(x, index)
      [] x.k = "CTier" -> CompleteTierWitness(x, index)

Position(x) ==
    CASE x.k = "Item" -> None
      [] x.k = "FLeaf" -> LeafPosition(x)
      [] x.k = "FNode" -> NodePosition(x)
      [] x.k = "Tier" -> TierPosition(x)

Forget(x, forgotten, index) ==
    CASE x.k = "Item" -> ItemForget(x, forgotten, index)
      [] x.k = "FLeaf" -> LeafForget(x, forgotten, index)
      [] x.k = "FNode" -> NodeForget(x, forgotten, index)
      [] x.k = "Tier" -> TierForget(x, forgotten, index)

ForgetOwned(x, forgotten, index) ==
    CASE x.k = "CItem" -> CompleteItemForgetOwned(x, forgotten, index)
      [] x.k = "CLeaf" -> CompleteLeafForgetOwned(x, forgotten, index)
      [] x.k = "CNode" -> CompleteNodeForgetOwned(x, forgotten, index)
      [] x.k = "CTier" -> CompleteTierForgetOwned(x, forgotten, index)

(***************************************************************************)
(* Focus and update of the focused item                                    *)
(***************************************************************************)
RECURSIVE Focus(_)
Focus(x) == IF x.k = "FLeaf" THEN x.item ELSE Focus(x.focus)

\* update: the frontier with its focused item replaced; the nodes above a
\* changed item are new cells, so their cached hashes are dropped
RECURSIVE Update(_, _)
Update(x, item) ==
    IF item = Focus(x) THEN x
    ELSE IF x.k = "FLeaf" THEN LeafNew(item)
    ELSE NodeFromParts(x.height, x.forgotten, x.siblings, Update(x.focus, item))

\* Tier::focus
TierFocus(self) ==
    IF self.inner.tag = "Frontier" THEN Some(Focus(self.inner.v)) ELSE None

\* Tier::update, with the function applied given as the new focused item
TierUpdate(self, item) ==
    IF self.inner.tag = "Frontier"
    THEN [self EXCEPT !.inner = InnerFrontier(Update(self.inner.v, item))]
    ELSE self

(***************************************************************************)
(* Top and the tree facade                                                 *)
(***************************************************************************)
BlockHeight == TierDepth
EpochHeight == 2 * TierDepth
TotalHeight == 3 * TierDepth

EmptyTree == [index |-> <<>>, inner |-> None, forgotten |-> ForgottenDefault]

\* Top::position
TopPosition(inner) == IF IsSome(inner) THEN Position(inner[1]) ELSE Some(0)

\* Top::hash
TopGetHash(inner) ==
    IF IsSome(inner) THEN GetHash(inner[1])
    ELSE HashNode(TotalHeight, One, One, One, One)

TreeRoot(t) == TopGetHash(t.inner)
TreePosition(t) == TopPosition(t.inner)

\* Top::insert of an item (a commitment or its hash): into the current block,
\* else into a new block of the current epoch, else into a new epoch
TopInsert(inner, item) ==
    IF ~IsSome(inner)
    THEN [res |-> "Ok", inner |-> Some(NestedNew(TierNew(TierNew(item)), TierDepth)),
          panic |-> FALSE]
    ELSE LET top == inner[1]
             epoch == Focus(top)
             block == TierFocus(epoch)
             sealedEpoch == IF IsSome(block)
                            THEN TierUpdate(epoch, TierFinalize(block[1]).this)
                            ELSE epoch
             \* the epoch did not take a new block: seal it and start a new epoch
             IntoNewEpoch ==
                 IF IsFull(top) THEN [res |-> "Full", inner |-> inner, panic |-> FALSE]
                 ELSE [res |-> "Ok",
                       inner |-> Some(InsertOwned(Update(top, TierFinalize(sealedEpoch).this),
                                                  TierNew(TierNew(item))).this),
                       panic |-> FALSE]
             \* the block did not take the item: seal it and start a new block
             IntoNewBlock(r2) ==
                 IF r2.ok
                 THEN [res |-> "Ok", inner |-> Some(Update(top, r2.this)), panic |-> FALSE]
                 ELSE IF r2.panic THEN [res |-> "Panic", inner |-> inner, panic |-> TRUE]
                 ELSE IntoNewEpoch
             IntoBlock(r1) ==
                 IF r1.ok
                 THEN [res |-> "Ok", inner |-> Some(Update(top, TierUpdate(epoch, r1.this))),
                       panic |-> FALSE]
                 ELSE IF r1.panic THEN [res |-> "Panic", inner |-> inner, panic |-> TRUE]
                 ELSE IntoNewBlock(TierInsert(sealedEpoch, TierNew(item)))
         IN  IntoBlock(IF IsSome(block) THEN TierInsert(block[1], item)
                       ELSE [ok |-> FALSE, item |-> item, this |-> epoch, panic |-> FALSE])

\* The tree after Top::insert answered r: the index gains a kept commitment
TreeInserted(t, keep, c, position, r) ==
    IF r.res # "Ok" THEN [res |-> r.res, tree |-> t, panic |-> r.panic]
    ELSE [res |-> "Ok",
          tree |-> [t EXCEPT !.inner = r.inner,
                             !.index = IF keep
                                       THEN [x \in DOMAIN t.index \cup {c} |->
                                               IF x = c THEN Unwrap(position) ELSE t.index[x]]
                                       ELSE t.index],
          panic |-> FALSE]

\* Mutant: no check of the index before inserting
TreeInsert_NoDuplicateCheck(t, keep, c) ==
    TreeInserted(t, keep, c, TopPosition(t.inner),
                 TopInsert(t.inner, IF keep THEN ItemKeep(c) ELSE ItemHash(HashOf(c))))

\* Tree::insert
TreeInsert(t, keep, c) ==
    IF c \in DOMAIN t.index
    THEN [res |-> "DuplicateCommitment", tree |-> t, panic |-> FALSE]
    ELSE TreeInserted(t, keep, c, TopPosition(t.inner),
                      TopInsert(t.inner, IF keep THEN ItemKeep(c) ELSE ItemHash(HashOf(c))))

\* Mutant: end_block seals an open block and does nothing else
TreeEndBlock_SealOnly(t) ==
    IF ~IsSome(t.inner) THEN [res |-> "Ok", tree |-> t]
    ELSE LET top == t.inner[1]
             epoch == Focus(top)
             block == TierFocus(epoch)
         IN  IF IsSome(block)
             THEN [res |-> "Ok",
                   tree |-> [t EXCEPT !.inner =
                       Some(Update(top, TierUpdate(epoch, TierFinalize(block[1]).this)))]]
             ELSE [res |-> "Ok", tree |-> t]

\* Tree::end_block: seal the current block; at a block boundary, add an empty
\* sealed block
TreeEndBlock(t) ==
    LET emptyBlock == TierFromHash(BlockHeight, One)
    IN  IF ~IsSome(t.inner)
        THEN [res |-> "Ok",
              tree |-> [t EXCEPT !.inner = Some(NestedNew(TierNew(emptyBlock), TierDepth))]]
        ELSE LET top == t.inner[1]
                 epoch == Focus(top)
                 block == TierFocus(epoch)
                 r2 == TierInsert(epoch, emptyBlock)
                 sealedTop == Update(top, TierFinalize(epoch).this)
             IN  IF IsSome(block) /\ ~TierIsFinalized(block[1])
                 THEN [res |-> "Ok",
                       tree |-> [t EXCEPT !.inner =
                           Some(Update(top, TierUpdate(epoch, TierFinalize(block[1]).this)))]]
                 ELSE IF r2.ok
                 THEN [res |-> "Ok", tree |-> [t EXCEPT !.inner = Some(Update(top, r2.this))]]
                 ELSE IF IsFull(top) THEN [res |-> "Full", tree |-> t]
                 ELSE [res |-> "Ok",
                       tree |-> [t EXCEPT !.inner =
                           Some(InsertOwned(sealedTop, TierNew(emptyBlock)).this)]]

\* Tree::end_epoch: seal the current block and epoch; at an epoch boundary, add
\* an empty sealed epoch
TreeEndEpoch(t) ==
    LET emptyEpoch == TierFromHash(EpochHeight, One)
    IN  IF ~IsSome(t.inner)
        THEN [res |-> "Ok", tree |-> [t EXCEPT !.inner = Some(NestedNew(emptyEpoch, TierDepth))]]
        ELSE LET top == t.inner[1]
                 epoch == Focus(top)
                 block == TierFocus(epoch)
                 sealedBlock == IF IsSome(block)
                                THEN TierUpdate(epoch, TierFinalize(block[1]).this)
                                ELSE epoch
             IN  IF ~TierIsFinalized(epoch)
                 THEN [res |-> "Ok",
                       tree |-> [t EXCEPT !.inner =
                           Some(Update(top, TierFinalize(sealedBlock).this))]]
                 ELSE IF IsFull(top) THEN [res |-> "Full", tree |-> t]
                 ELSE [res |-> "Ok",
                       tree |-> [t EXCEPT !.inner = Some(InsertOwned(top, emptyEpoch).this)]]

\* Tree::witness: the position, the authentication path and the leaf hash
TreeWitness(t, c) ==
    IF c \notin DOMAIN t.index THEN None
    ELSE LET w == IF IsSome(t.inner) THEN Witness(t.inner[1], t.index[c]) ELSE None
         IN  IF IsSome(w)
             THEN Some([position |-> t.index[c], path |-> w[1].path, leaf |-> w[1].leaf])
             ELSE None

\* Tree::forget
TreeForget(t, c) ==
    IF c \notin DOMAIN t.index THEN [res |-> FALSE, tree |-> t]
    ELSE LET r == Forget(t.inner[1], Some(t.forgotten), t.index[c])
         IN  [res |-> TRUE,
              tree |-> [t EXCEPT !.inner = Some(r.this),
                                 !.index = [x \in DOMAIN t.index \ {c} |-> t.index[x]],
                                 !.forgotten = IF r.did THEN ForgottenNext(t.forgotten)
                                               ELSE t.forgotten]]

\* Tree::root computes the hash and leaves it cached
TreeWithHash(t) ==
    IF IsSome(t.inner) THEN [t EXCEPT !.inner = Some(WithHash(t.inner[1]))] ELSE t

(***************************************************************************)
(* Verification of a proof: the root an authentication path folds to       *)
(***************************************************************************)
RECURSIVE PathRoot(_, _, _, _)
PathRoot(path, index, leaf, height) ==
    IF height = 0 THEN leaf
    ELSE LET which == WhichWay(height, index)
             below == PathRoot(Tail(path), IndexBelow(height, index), leaf, height - 1)
             sibs == path[1]
             hs == [i \in 1..4 |-> IF i <= which THEN sibs[i]
                                   ELSE IF i = which + 1 THEN below
                                   ELSE sibs[i - 1]]
         IN  HashNode(height, hs[1], hs[2], hs[3], hs[4])

(***************************************************************************)
(* State                                                                   *)
(***************************************************************************)
VARIABLES
    tree,       \* the Tree: index, inner (Top), forgotten version
    witnessed,  \* history: commitments inserted with Keep and not forgotten since
    leaves,     \* history: number of successful insertions
    seals,      \* history: number of end_block / end_epoch calls
    last,       \* the last call on the tree and what it returned
    shadow,     \* the tree of the same calls with every insert of a hash
                \* (Witness::Forget) made as an insert with Keep, then forget
    storage,    \* what a storage adapter holds: position, hashes, commitments,
                \* and the forgotten version and number of the passes written
    reading,    \* a from_reader call in progress: the points its reader has
                \* yet to yield, and the index and tree built so far
    tier,       \* a single frontier::Tier<Item>
    tierItems,  \* history: number of items the tier has accepted
    tierKeeps,  \* history: number of witnessed items given to the tier
    tierLast,   \* the last call on the tier: what it was given and returned,
                \* with is_full() (flag, for insert) and the state before it
    writing,    \* a to_writer call in progress: the points its streams have
                \* yet to yield, the calls made on the writer, what it returned
    app,        \* the pd App: mempool nullifiers, database, pending block
    view,       \* the view Storage: sync_height row, uncommitted_height
    panicked    \* a call has panicked

vars == <<tree, witnessed, leaves, seals, last, shadow, storage, reading, tier, tierItems, tierKeeps, tierLast, writing, app, view, panicked>>
treeVars == <<tree, witnessed, leaves, seals, last, shadow, storage, reading>>
tierVars == <<tier, tierItems, tierKeeps, tierLast>>
hostVars == <<writing, app, view>>

\* A storage adapter that holds nothing: the position of an empty tree
EmptyStorage ==
    [position |-> Some(0), hashes |-> {}, commitments |-> {},
     forgotten |-> ForgottenDefault, passes |-> 0]

\* No from_reader call is in progress
NotReading ==
    [phase |-> "idle", position |-> Some(0), commitments |-> {}, hashes |-> {},
     unread |-> {}, unset |-> {}, shuffled |-> {}, index |-> <<>>, inner |-> None,
     returned |-> [res |-> "none", tree |-> EmptyTree]]

\* No to_writer call is in progress
NotWriting ==
    [phase |-> "idle", hashes |-> <<>>, forgotten |-> <<>>,
     new_hashes |-> <<>>, forgotten_points |-> <<>>, calls |-> <<>>,
     stored |-> Some(0), returned |-> [res |-> "none", error |-> None]]

\* No pd App and no view Storage has been constructed
NoApp == [phase |-> "none"]
NoView == [phase |-> "none"]

NoCall == [op |-> "none", keep |-> FALSE, c |-> 0, res |-> "none"]
NoTierCall == [op |-> "none", ok |-> FALSE, item |-> None, back |-> None,
               flag |-> FALSE, was |-> "none"]

\* No call has been made on the tree
TreeIdle ==
    /\ tree = EmptyTree
    /\ witnessed = {}
    /\ leaves = 0
    /\ seals = 0
    /\ last = NoCall
    /\ shadow = EmptyTree
    /\ storage = EmptyStorage
    /\ reading = NotReading

TreeInit ==
    /\ TreeIdle
    /\ writing = NotWriting
    /\ app = NoApp
    /\ view = NoView

\* The items a caller hands to a tier: a bare hash (as the test
\* position_advances_by_one does), or the next witnessed commitment
TierItemsOf(keeps) ==
    {ItemHash(Zero)} \cup (IF keeps < MaxTierKeeps THEN {ItemKeep(keeps + 1)} ELSE {})

TierInit ==
    /\ \E item \in TierItemsOf(0) :
          /\ tier = TierNew(item)
          /\ tierKeeps = IF item.keep THEN 1 ELSE 0
    /\ tierItems = 1
    /\ tierLast = NoTierCall

(***************************************************************************)
(* Calls on the tree                                                       *)
(***************************************************************************)
InsertCall(keep, c) ==
    /\ leaves + seals < MaxOps
    /\ ~panicked
    /\ LET Returned(r) ==
               /\ tree' = r.tree
               /\ last' = [op |-> "insert", keep |-> keep, c |-> c, res |-> r.res]
               /\ witnessed' = IF r.res = "Ok" /\ keep THEN witnessed \cup {c} ELSE witnessed
               /\ leaves' = IF r.res = "Ok" THEN leaves + 1 ELSE leaves
               /\ panicked' = r.panic
       IN  Returned(TreeInsert(tree, keep, c))
    /\ UNCHANGED <<seals, tierVars, hostVars>>

EndBlockCall ==
    /\ leaves + seals < MaxOps
    /\ ~panicked
    /\ LET r == TreeEndBlock(tree)
       IN  /\ tree' = r.tree
           /\ last' = [op |-> "end_block", keep |-> FALSE, c |-> 0, res |-> r.res]
    /\ seals' = seals + 1
    /\ UNCHANGED <<witnessed, leaves, tierVars, hostVars, panicked>>

EndEpochCall ==
    /\ leaves + seals < MaxOps
    /\ ~panicked
    /\ LET r == TreeEndEpoch(tree)
       IN  /\ tree' = r.tree
           /\ last' = [op |-> "end_epoch", keep |-> FALSE, c |-> 0, res |-> r.res]
    /\ seals' = seals + 1
    /\ UNCHANGED <<witnessed, leaves, tierVars, hostVars, panicked>>

ForgetCall(c) ==
    /\ ~panicked
    /\ LET r == TreeForget(tree, c)
       IN  /\ tree' = r.tree
           /\ last' = [op |-> "forget", keep |-> FALSE, c |-> c,
                       res |-> IF r.res THEN "true" ELSE "false"]
    /\ witnessed' = witnessed \ {c}
    /\ UNCHANGED <<leaves, seals, tierVars, hostVars, panicked>>

RootCall ==
    /\ ~panicked
    /\ tree' = TreeWithHash(tree)
    /\ last' = [op |-> "root", keep |-> FALSE, c |-> 0, res |-> "Ok"]
    /\ UNCHANGED <<witnessed, leaves, seals, tierVars, hostVars, panicked>>

\* The calls on the tree alone
Insert(keep, c) == InsertCall(keep, c) /\ UNCHANGED <<shadow, storage, reading>>
EndBlock == EndBlockCall /\ UNCHANGED <<shadow, storage, reading>>
EndEpoch == EndEpochCall /\ UNCHANGED <<shadow, storage, reading>>
ForgetCommitment(c) == ForgetCall(c) /\ UNCHANGED <<shadow, storage, reading>>
Root == RootCall /\ UNCHANGED <<shadow, storage, reading>>

(***************************************************************************)
(* Calls on the single tier                                                *)
(***************************************************************************)
TierCapacity == Pow(Arity, TierDepth)

TierDoInsert(item) ==
    /\ ~panicked
    /\ LET r == TierInsert(tier, item)
       IN  /\ tier' = r.this
           /\ tierLast' = [op |-> "insert", ok |-> r.ok, item |-> Some(item),
                           back |-> IF r.ok THEN None ELSE Some(r.item),
                           flag |-> TierIsFull(tier), was |-> tier.inner.tag]
           /\ tierItems' = IF r.ok THEN tierItems + 1 ELSE tierItems
           /\ panicked' = r.panic
    /\ tierKeeps' = IF item.keep THEN tierKeeps + 1 ELSE tierKeeps
    /\ UNCHANGED <<treeVars, hostVars>>

TierDoFinalize ==
    /\ ~panicked
    /\ LET r == TierFinalize(tier)
       IN  /\ tier' = r.this
           /\ tierLast' = [op |-> "finalize", ok |-> TRUE, item |-> None, back |-> None,
                           flag |-> r.result, was |-> tier.inner.tag]
    /\ UNCHANGED <<tierItems, tierKeeps, treeVars, hostVars, panicked>>

TierDoForget(index) ==
    /\ ~panicked
    /\ LET r == TierForget(tier, Some(ForgottenDefault), index)
       IN  /\ tier' = r.this
           /\ tierLast' = [op |-> "forget", ok |-> TRUE, item |-> None, back |-> None,
                           flag |-> r.did, was |-> tier.inner.tag]
    /\ UNCHANGED <<tierItems, tierKeeps, treeVars, hostVars, panicked>>

TierDoHash ==
    /\ ~panicked
    /\ tier' = WithHash(tier)
    /\ tierLast' = [op |-> "hash", ok |-> TRUE, item |-> None, back |-> None,
                    flag |-> FALSE, was |-> tier.inner.tag]
    /\ UNCHANGED <<tierItems, tierKeeps, treeVars, hostVars, panicked>>

(***************************************************************************)
(* Specifications                                                          *)
(***************************************************************************)
\* The tree specification leaves the single tier alone, and conversely
IdleTier ==
    /\ tier = TierNew(ItemHash(Zero))
    /\ tierItems = 1
    /\ tierKeeps = 0
    /\ tierLast = NoTierCall

Init == TreeInit /\ IdleTier /\ panicked = FALSE

Next ==
    \/ \E keep \in BOOLEAN, c \in Commitments : Insert(keep, c)
    \/ EndBlock
    \/ EndEpoch
    \/ \E c \in Commitments : ForgetCommitment(c)
    \/ Root

Spec == Init /\ [][Next]_vars

TierNext ==
    \/ \E item \in TierItemsOf(tierKeeps) : TierDoInsert(item)
    \/ TierDoFinalize
    \/ \E index \in 0..(TierCapacity - 1) : TierDoForget(index)
    \/ TierDoHash

TierSpecInit == TreeInit /\ TierInit /\ panicked = FALSE

TierSpec == TierSpecInit /\ [][TierNext]_vars

(***************************************************************************)
(* Properties of the single tier (TierSpec)                                *)
(***************************************************************************)

\* C8: a tier never auto-seals.  A rejected Tier::insert hands back the item
\* it was given and leaves the tier exactly as it was (state, contents, hash,
\* position); a full frontier tier is still a frontier afterwards.
C8_RejectedInsertLeavesTier ==
    [][(tierLast'.op = "insert" /\ ~tierLast'.ok /\ ~panicked') =>
          /\ tierLast'.back = tierLast'.item
          /\ tier' = tier
          /\ TierGetHash(tier') = TierGetHash(tier)
          /\ TierPosition(tier') = TierPosition(tier)
          /\ (tierLast'.was = "Frontier" => ~TierIsFinalized(tier'))]_vars

C8_Witness ==
    /\ tierLast.op = "insert" /\ ~tierLast.ok
    /\ tierLast.was = "Frontier"
    /\ tier.inner.tag = "Frontier" /\ TierIsFull(tier)

C10_TierCapacity ==
    /\ tierItems <= TierCapacity
    /\ tier.inner.tag = "Frontier" =>
          /\ TierIsFull(tier) <=> tierItems = TierCapacity
          /\ TierPosition(tier) = IF tierItems = TierCapacity THEN None
                                  ELSE Some(tierItems)
    /\ (tierLast.op = "insert" /\ tierLast.was = "Frontier" /\ ~tierLast.ok) =>
          /\ tierItems = TierCapacity
          /\ tierLast.back = tierLast.item

C10_Witness ==
    /\ tierItems = TierCapacity
    /\ tierLast.op = "insert" /\ ~tierLast.ok /\ tierLast.was = "Frontier"
    /\ TierPosition(tier) = None /\ TierIsFull(tier)

(***************************************************************************)
(* Observations of the tree used by its properties                         *)
(***************************************************************************)
\* A position as a number: None is the maximum position + 1
PositionValue(p) == IF IsSome(p) THEN Unwrap(p) ELSE Pow(Arity, TotalHeight)

\* The hash of a subtree computed from scratch, no cache read: four child
\* hashes per node, zero for the missing children of a frontier node; the
\* missing children of a complete node are stored as the hash one
RECURSIVE RefHash(_)
RefInsertHash(ins) == IF IsKeep(ins) THEN RefHash(ins.v) ELSE ins.h
RefHash(x) ==
    CASE x.k = "Item" -> IF x.keep THEN HashOf(x.c) ELSE x.h
      [] x.k = "CItem" -> HashOf(x.c)
      [] x.k \in {"FLeaf", "CLeaf"} -> RefHash(x.item)
      [] x.k = "Tier" -> IF x.inner.tag = "Hash" THEN x.inner.h ELSE RefHash(x.inner.v)
      [] x.k = "CTier" -> RefHash(x.inner)
      [] x.k = "CNode" ->
            HashNode(x.height, RefInsertHash(x.children[1]), RefInsertHash(x.children[2]),
                     RefInsertHash(x.children[3]), RefInsertHash(x.children[4]))
      [] x.k = "FNode" ->
            LET n == Len(x.siblings)
                h == [i \in 1..4 |-> IF i <= n THEN RefInsertHash(x.siblings[i])
                                     ELSE IF i = n + 1 THEN RefHash(x.focus)
                                     ELSE Zero]
            IN  HashNode(x.height, h[1], h[2], h[3], h[4])

RefRoot(t) ==
    IF IsSome(t.inner) THEN RefHash(t.inner[1])
    ELSE HashNode(TotalHeight, One, One, One, One)

\* Whether some hash is cached in a subtree
RECURSIVE AnyCacheSet(_)
AnyCacheSet(x) ==
    CASE x.k \in {"Item", "CItem"} -> FALSE
      [] x.k \in {"FLeaf", "CLeaf"} -> AnyCacheSet(x.item)
      [] x.k = "Tier" -> x.inner.tag # "Hash" /\ AnyCacheSet(x.inner.v)
      [] x.k = "CTier" -> AnyCacheSet(x.inner)
      [] x.k = "CNode" ->
            \/ x.hash # CacheEmpty
            \/ \E i \in 1..4 : IsKeep(x.children[i]) /\ AnyCacheSet(x.children[i].v)
      [] x.k = "FNode" ->
            \/ x.hash # CacheEmpty
            \/ AnyCacheSet(x.focus)
            \/ \E i \in 1..Len(x.siblings) :
                  IsKeep(x.siblings[i]) /\ AnyCacheSet(x.siblings[i].v)

\* The witnessed leaves of a subtree, each with its position
RECURSIVE WitnessedLeaves(_, _)
InsertWitnessedLeaves(ins, base) ==
    IF IsKeep(ins) THEN WitnessedLeaves(ins.v, base) ELSE {}
WitnessedLeaves(x, base) ==
    CASE x.k = "Item" -> IF x.keep THEN {<<x.c, base>>} ELSE {}
      [] x.k = "CItem" -> {<<x.c, base>>}
      [] x.k \in {"FLeaf", "CLeaf"} -> WitnessedLeaves(x.item, base)
      [] x.k = "Tier" -> IF x.inner.tag = "Hash" THEN {} ELSE WitnessedLeaves(x.inner.v, base)
      [] x.k = "CTier" -> WitnessedLeaves(x.inner, base)
      [] x.k = "CNode" ->
            UNION {InsertWitnessedLeaves(x.children[i], base + (i - 1) * Pow(Arity, x.height - 1)) :
                     i \in 1..4}
      [] x.k = "FNode" ->
            WitnessedLeaves(x.focus, base + Len(x.siblings) * Pow(Arity, x.height - 1))
            \cup UNION {InsertWitnessedLeaves(x.siblings[i],
                                              base + (i - 1) * Pow(Arity, x.height - 1)) :
                          i \in 1..Len(x.siblings)}

TreeWitnessedLeaves(t) == IF IsSome(t.inner) THEN WitnessedLeaves(t.inner[1], 0) ELSE {}

\* The tiers on the frontier path of the tree: the current epoch and block
FrontierTiers(t) ==
    IF ~IsSome(t.inner) THEN {}
    ELSE LET epoch == Focus(t.inner[1])
         IN  {epoch} \cup (IF IsSome(TierFocus(epoch)) THEN {Unwrap(TierFocus(epoch))} ELSE {})

(***************************************************************************)
(* Properties of Tier::finalize (TierSpec)                                 *)
(***************************************************************************)

\* C11: Tier::finalize turns a frontier tier into Hash exactly when no
\* witnessed leaf is beneath it and into Complete otherwise; a complete tier
\* always has a witnessed leaf beneath it, also after forgets inside it.
C11_FinalizeHashIffUnwitnessed ==
    [][/\ (tierLast'.op = "finalize" /\ tierLast'.was = "Frontier") =>
             /\ tier'.inner.tag \in {"Complete", "Hash"}
             /\ tier'.inner.tag = "Hash" <=> WitnessedLeaves(tier, 0) = {}
             /\ WitnessedLeaves(tier', 0) = WitnessedLeaves(tier, 0)
       /\ tier'.inner.tag = "Complete" => WitnessedLeaves(tier', 0) # {}
       /\ (TierIsFinalized(tier') /\ WitnessedLeaves(tier', 0) = {}) =>
             tier'.inner.tag = "Hash"]_vars

C11_Witness ==
    /\ tierLast.op = "finalize" /\ tierLast.was = "Frontier"
    /\ tier.inner.tag = "Hash"
    /\ tierKeeps >= 1 /\ tierItems >= 2

\* C12: Tier::finalize is idempotent: on a finalized tier (Complete or Hash)
\* it changes nothing, and it returns true exactly when the tier was finalized
\* before the call.
C12_FinalizeIdempotent ==
    [][tierLast'.op = "finalize" =>
          /\ tierLast'.flag <=> tierLast'.was \in {"Complete", "Hash"}
          /\ tierLast'.flag <=> TierIsFinalized(tier)
          /\ TierIsFinalized(tier) => tier' = tier
          /\ TierIsFinalized(tier')
          /\ TierFinalize(tier').this = tier' /\ TierFinalize(tier').result]_vars

C12_Witness ==
    /\ tierLast.op = "finalize" /\ tierLast.flag
    /\ tierLast.was = "Complete" /\ tier.inner.tag = "Complete"

(***************************************************************************)
(* Properties of the tree (Spec)                                           *)
(***************************************************************************)

\* C1: witness soundness.  For every commitment inserted with Keep and not
\* forgotten since, witness succeeds with a path of TotalHeight entries, and
\* folding the path up from the leaf hash of the commitment gives root().
C1_WitnessSoundness ==
    \A c \in witnessed :
        LET w == TreeWitness(tree, c)
        IN  /\ IsSome(w)
            /\ Len(w[1].path) = TotalHeight
            /\ PathRoot(w[1].path, w[1].position, HashOf(c), TotalHeight) = TreeRoot(tree)

C1_Witness ==
    /\ last.op = "forget" /\ last.res = "true"
    /\ seals >= 1 /\ leaves >= 3
    /\ \E c \in witnessed :
          /\ tree.index[c] < TierCapacity
          /\ PositionValue(TreePosition(tree)) > TierCapacity

\* C2: forget never changes the root: root() after forget(c) equals root()
\* before it, and so does the hash of every tier on the frontier path,
\* whatever its state, also when a complete tier collapses into a hash.
C2_ForgetKeepsRoot ==
    [][last'.op = "forget" =>
          /\ TreeRoot(tree') = TreeRoot(tree)
          /\ RefRoot(tree') = RefRoot(tree)
          /\ {TierGetHash(t) : t \in FrontierTiers(tree')}
                = {TierGetHash(t) : t \in FrontierTiers(tree)}]_vars

C2_Witness ==
    /\ last.op = "forget" /\ last.res = "true"
    /\ leaves = 1 /\ seals = 1
    /\ \E t \in FrontierTiers(tree) :
          t.height = BlockHeight /\ t.inner.tag = "Hash" /\ t.inner.h # One

\* C3: root() equals the hash recomputed from scratch from the current
\* structure with the place-dependent padding, so no stale cached hash is
\* returned, and calling it again returns the same value.
C3_RootIsRecomputedHash ==
    /\ TreeRoot(tree) = RefRoot(tree)
    /\ TreeRoot(TreeWithHash(tree)) = TreeRoot(tree)
    /\ \A t \in FrontierTiers(tree) : TierGetHash(t) = RefHash(t)

C3_Witness ==
    /\ last.op \in {"insert", "end_block", "end_epoch"} /\ last.res = "Ok"
    /\ IsSome(tree.inner)
    /\ tree.inner[1].hash = CacheEmpty
    /\ AnyCacheSet(tree.inner[1])

\* C4: the position never decreases, a successful insert increases it by
\* exactly one, forget and root leave it alone, and without seals it is the
\* number of leaves inserted (None counts as the maximum position + 1).
C4_MonotonicPosition ==
    [][LET before == PositionValue(TreePosition(tree))
           after == PositionValue(TreePosition(tree'))
       IN  /\ after >= before
           /\ (last'.op = "insert" /\ last'.res = "Ok") => after = before + 1
           /\ (last'.op = "insert" /\ last'.res # "Ok") => after = before
           /\ last'.op \in {"forget", "root"} => after = before
           /\ after >= leaves'
           /\ seals' = 0 => after = leaves']_vars

C4_Witness ==
    /\ last.op = "insert" /\ last.res = "Ok"
    /\ seals >= 1
    /\ PositionValue(TreePosition(tree)) > TierCapacity + 1
    /\ PositionValue(TreePosition(tree)) > leaves

\* C5: insert returns DuplicateCommitment exactly when the commitment is in
\* the index, and then leaves the tree unchanged; forget takes the commitment
\* out of the index, so it can be inserted again.
C5_DuplicateRejection ==
    [][/\ last'.op = "insert" =>
             /\ (last'.res = "DuplicateCommitment") <=> (last'.c \in DOMAIN tree.index)
             /\ last'.res = "DuplicateCommitment" => tree' = tree
       /\ last'.op = "forget" =>
             /\ last'.c \notin DOMAIN tree'.index
             /\ TreeInsert(tree', TRUE, last'.c).res # "DuplicateCommitment"]_vars

C5_Witness ==
    /\ last.op = "insert" /\ last.res = "DuplicateCommitment"
    /\ tree.forgotten >= 1

\* C6: witness(c) succeeds exactly for the commitments inserted with Keep and
\* not forgotten since; a tier in the Hash state answers None for every index.
C6_WitnessIffKept ==
    /\ \A c \in Commitments : IsSome(TreeWitness(tree, c)) <=> c \in witnessed
    /\ \A t \in FrontierTiers(tree) :
          t.inner.tag = "Hash" =>
             \A index \in 0..(Pow(Arity, t.height) - 1) : TierWitness(t, index) = None

C6_Witness ==
    /\ last.op = "forget" /\ last.res = "true"
    /\ witnessed # {} /\ witnessed # Commitments
    /\ \E t \in FrontierTiers(tree) : t.inner.tag = "Hash"

(***************************************************************************)
(* Hashes left unresolved by an out-of-order construction                  *)
(***************************************************************************)
\* finish_initialize traverses the whole tree and recomputes a node without
\* a stored hash from its children; a hash-only slot that was never set,
\* wherever it is, cannot be resolved
RECURSIVE Unresolved(_)
InsertUnresolved(ins) == IF IsKeep(ins) THEN Unresolved(ins.v) ELSE ins.h = Uninitialized
Stored(cache) == cache # CacheEmpty /\ cache # CacheSet(Uninitialized)
ChildrenUnresolved(x) ==
    \/ Unresolved(x.focus)
    \/ \E i \in 1..Len(x.siblings) : InsertUnresolved(x.siblings[i])
Unresolved(x) ==
    CASE x.k \in {"Item", "CItem"} -> x.h = Uninitialized
      [] x.k \in {"FLeaf", "CLeaf"} -> Unresolved(x.item)
      [] x.k = "Tier" -> IF x.inner.tag = "Hash" THEN x.inner.h = Uninitialized
                         ELSE Unresolved(x.inner.v)
      [] x.k = "CTier" -> Unresolved(x.inner)
      [] x.k = "CNode" -> \E i \in 1..4 : InsertUnresolved(x.children[i])
      [] x.k = "FNode" -> ChildrenUnresolved(x)

(***************************************************************************)
(* What a storage reader holds for a tree: the position, the surviving     *)
(* leaf commitments, and the hashes at the boundaries of pruned subtrees   *)
(***************************************************************************)
RECURSIVE BoundaryHashes(_, _)
InsertBoundaryHashes(ins, base, height) ==
    IF IsKeep(ins) THEN BoundaryHashes(ins.v, base) ELSE {<<base, height, ins.h>>}
BoundaryHashes(x, base) ==
    CASE x.k = "Item" -> IF x.keep THEN {} ELSE {<<base, 0, x.h>>}
      [] x.k = "CItem" -> {}
      [] x.k \in {"FLeaf", "CLeaf"} -> BoundaryHashes(x.item, base)
      [] x.k = "Tier" -> IF x.inner.tag = "Hash" THEN {<<base, x.height, x.inner.h>>}
                         ELSE BoundaryHashes(x.inner.v, base)
      [] x.k = "CTier" -> BoundaryHashes(x.inner, base)
      [] x.k = "CNode" ->
            UNION {InsertBoundaryHashes(x.children[i],
                                        base + (i - 1) * Pow(Arity, x.height - 1),
                                        x.height - 1) : i \in 1..4}
      [] x.k = "FNode" ->
            BoundaryHashes(x.focus, base + Len(x.siblings) * Pow(Arity, x.height - 1))
            \cup UNION {InsertBoundaryHashes(x.siblings[i],
                                             base + (i - 1) * Pow(Arity, x.height - 1),
                                             x.height - 1) : i \in 1..Len(x.siblings)}

\* A stream of a reader: its points, here in ascending order
RECURSIVE StreamOf(_)
StreamOf(points) ==
    IF points = {} THEN <<>>
    ELSE LET first == CHOOSE a \in points :
                         \A b \in points \ {a} :
                            a[1] < b[1] \/ (a[1] = b[1] /\ a[2] < b[2])
         IN  <<first>> \o StreamOf(points \ {first})

ReaderOf(t) ==
    [position |-> TreePosition(t),
     commitments |-> StreamOf({<<leaf[2], leaf[1]>> : leaf \in TreeWitnessedLeaves(t)}),
     hashes |-> StreamOf(IF IsSome(t.inner) THEN BoundaryHashes(t.inner[1], 0) ELSE {})]

(***************************************************************************)
(* Out-of-order construction of a tree                                     *)
(***************************************************************************)
RECURSIVE UninitializedNode(_, _)
\* The skeleton of the frontier whose last slot is `tip`: every slot holds
\* the uninitialized hash, and a tier that ends at the tip is a finalized one
UninitializedChild(height, tip) ==
    IF height = 0 THEN LeafNew(ItemHash(Uninitialized))
    ELSE IF height % TierDepth # 0 THEN UninitializedNode(height, tip)
    ELSE IF tip = Pow(Arity, height) - 1 THEN LeafNew(TierFromHash(height, Uninitialized))
    ELSE LeafNew(MkTier(height, InnerFrontier(UninitializedNode(height, tip))))
UninitializedNode(height, tip) ==
    NodeFromParts(height, [i \in 1..4 |-> ForgottenDefault],
                  [i \in 1..WhichWay(height, tip) |-> HashOnly(Uninitialized)],
                  UninitializedChild(height - 1, IndexBelow(height, tip)))

\* OutOfOrder::uninitialized for the top
TopUninitialized(position) ==
    IF position = Some(0) THEN None
    ELSE Some(UninitializedNode(TotalHeight, PositionValue(position) - 1))

RECURSIVE OutOfOrderOwned(_, _, _, _)
\* complete::Node: a hashed child on the way becomes a node whose children
\* are uninitialized
CompleteNodeOutOfOrderOwned(this, height, index, commitment) ==
    LET node == IF IsKeep(this) THEN this.v
                ELSE [k |-> "CNode", height |-> height,
                      children |-> [i \in 1..4 |-> HashOnly(Uninitialized)],
                      hash |-> CacheSet(this.h),
                      forgotten |-> [i \in 1..4 |-> ForgottenDefault]]
    IN  [node EXCEPT !.children[WhichWay(height, index) + 1] =
            Keep(OutOfOrderOwned(node.children[WhichWay(height, index) + 1], height - 1,
                                 IndexBelow(height, index), commitment))]

\* impl OutOfOrderOwned for complete::Tier
CompleteTierOutOfOrderOwned(this, height, index, commitment) ==
    CompleteTier(CompleteNodeOutOfOrderOwned(
        IF IsKeep(this) THEN Keep(this.v.inner) ELSE this, height, index, commitment))

OutOfOrderOwned(this, height, index, commitment) ==
    IF height = 0 THEN CompleteLeaf(CompleteItem(commitment, HashOf(commitment)))
    ELSE IF height % TierDepth = 0
    THEN CompleteLeaf(CompleteTierOutOfOrderOwned(
             IF IsKeep(this) THEN Keep(this.v.item) ELSE this, height, index, commitment))
    ELSE CompleteNodeOutOfOrderOwned(this, height, index, commitment)

\* uninitialized_out_of_order_insert_commitment on the frontier
RECURSIVE OutOfOrderInsert(_, _, _)
OutOfOrderInsert(x, index, commitment) ==
    CASE x.k = "Item" -> ItemKeep(commitment)
      [] x.k = "FLeaf" -> [x EXCEPT !.item = OutOfOrderInsert(x.item, index, commitment)]
      [] x.k = "Tier" ->
            IF x.inner.tag = "Frontier"
            THEN [x EXCEPT !.inner = InnerFrontier(OutOfOrderInsert(x.inner.v, index, commitment))]
            ELSE [x EXCEPT !.inner = InnerComplete(CompleteNodeOutOfOrderOwned(
                     IF x.inner.tag = "Complete" THEN Keep(x.inner.v) ELSE HashOnly(x.inner.h),
                     x.height, index, commitment))]
      [] x.k = "FNode" ->
            IF WhichWay(x.height, index) < Len(x.siblings)
            THEN [x EXCEPT !.siblings[WhichWay(x.height, index) + 1] =
                     Keep(OutOfOrderOwned(x.siblings[WhichWay(x.height, index) + 1],
                                          x.height - 1, IndexBelow(x.height, index),
                                          commitment))]
            ELSE IF WhichWay(x.height, index) = Len(x.siblings)
            THEN [x EXCEPT !.focus = OutOfOrderInsert(x.focus, IndexBelow(x.height, index),
                                                      commitment)]
            ELSE x

\* unchecked_set_hash: the hash is set on whatever sits at (index, height)
RECURSIVE CompleteSetHash(_, _, _, _)
SetHashOwned(ins, own, index, height, hash) ==
    IF IsKeep(ins) THEN Keep(CompleteSetHash(ins.v, index, height, hash))
    ELSE IF height = own THEN HashOnly(hash)
    ELSE ins
\* Mutant: a tier whose own hash is set takes no hash any more
CompleteTierSetHash_Once(self, index, height, hash) ==
    IF Stored(self.inner.hash) THEN self
    ELSE [self EXCEPT !.inner = CompleteSetHash(self.inner, index, height, hash)]

\* impl UncheckedSetHash for complete::Tier
CompleteTierSetHash(self, index, height, hash) ==
    [self EXCEPT !.inner = CompleteSetHash(self.inner, index, height, hash)]
CompleteSetHash(x, index, height, hash) ==
    CASE x.k = "CItem" -> [x EXCEPT !.h = hash]
      [] x.k = "CLeaf" -> [x EXCEPT !.item = CompleteSetHash(x.item, index, height, hash)]
      [] x.k = "CTier" -> CompleteTierSetHash(x, index, height, hash)
      [] x.k = "CNode" ->
            IF height = x.height THEN [x EXCEPT !.hash = CacheSet(hash)]
            ELSE [x EXCEPT !.children[WhichWay(x.height, index) + 1] =
                     SetHashOwned(x.children[WhichWay(x.height, index) + 1], x.height - 1,
                                  IndexBelow(x.height, index), height, hash)]

RECURSIVE SetHash(_, _, _, _)
SetHash(x, index, height, hash) ==
    CASE x.k = "Item" -> IF x.keep THEN [x EXCEPT !.h = hash] ELSE ItemHash(hash)
      [] x.k = "FLeaf" -> [x EXCEPT !.item = SetHash(x.item, index, height, hash)]
      [] x.k = "Tier" ->
            IF x.inner.tag = "Frontier"
            THEN [x EXCEPT !.inner = InnerFrontier(SetHash(x.inner.v, index, height, hash))]
            ELSE IF x.inner.tag = "Complete"
            THEN [x EXCEPT !.inner = InnerComplete(CompleteSetHash(x.inner.v, index, height, hash))]
            ELSE IF height = x.height THEN TierFromHash(x.height, hash)
            ELSE x
      [] x.k = "FNode" ->
            IF height = x.height THEN [x EXCEPT !.hash = CacheSet(hash)]
            ELSE IF WhichWay(x.height, index) < Len(x.siblings)
            THEN [x EXCEPT !.siblings[WhichWay(x.height, index) + 1] =
                     SetHashOwned(x.siblings[WhichWay(x.height, index) + 1], x.height - 1,
                                  IndexBelow(x.height, index), height, hash)]
            ELSE IF WhichWay(x.height, index) = Len(x.siblings)
            THEN [x EXCEPT !.focus = SetHash(x.focus, IndexBelow(x.height, index), height, hash)]
            ELSE x

\* finish_initialize: the nodes without a stored hash are left to be hashed
RECURSIVE FinishInitialize(_)
InsertFinishInitialize(ins) == IF IsKeep(ins) THEN Keep(FinishInitialize(ins.v)) ELSE ins
CompleteTierFinishInitialize(self) ==
    [self EXCEPT !.inner = FinishInitialize(self.inner)]
FinishInitialize(x) ==
    CASE x.k \in {"Item", "CItem"} -> x
      [] x.k \in {"FLeaf", "CLeaf"} -> [x EXCEPT !.item = FinishInitialize(x.item)]
      [] x.k = "Tier" -> IF x.inner.tag = "Hash" THEN x
                         ELSE [x EXCEPT !.inner.v = FinishInitialize(x.inner.v)]
      [] x.k = "CTier" -> CompleteTierFinishInitialize(x)
      [] x.k = "CNode" ->
            [x EXCEPT !.hash = IF Stored(x.hash) THEN x.hash ELSE CacheEmpty,
                      !.children = [i \in 1..4 |-> InsertFinishInitialize(x.children[i])]]
      [] x.k = "FNode" ->
            [x EXCEPT !.hash = IF Stored(x.hash) THEN x.hash ELSE CacheEmpty,
                      !.focus = FinishInitialize(x.focus),
                      !.siblings = [i \in 1..Len(x.siblings) |->
                                       InsertFinishInitialize(x.siblings[i])]]

(***************************************************************************)
(* from_reader (storage/deserialize.rs)                                    *)
(***************************************************************************)
\* The loop over reader.commitments(): each point goes into the tree at its
\* position and into the index under its commitment
RECURSIVE ReadCommitments(_, _, _)
\* Mutant: the commitments go into the tree but not into the index
ReadCommitments_NoIndex(index, inner, commitments) ==
    IF commitments = <<>> THEN [index |-> index, inner |-> inner]
    ELSE ReadCommitments(index,
                         IF IsSome(inner)
                         THEN Some(OutOfOrderInsert(inner[1], commitments[1][1],
                                                    commitments[1][2]))
                         ELSE inner,
                         Tail(commitments))

ReadCommitments(index, inner, commitments) ==
    IF commitments = <<>> THEN [index |-> index, inner |-> inner]
    ELSE ReadCommitments([c \in DOMAIN index \cup {commitments[1][2]} |->
                             IF c = commitments[1][2] THEN commitments[1][1] ELSE index[c]],
                         IF IsSome(inner)
                         THEN Some(OutOfOrderInsert(inner[1], commitments[1][1],
                                                    commitments[1][2]))
                         ELSE inner,
                         Tail(commitments))

\* The loop over reader.hashes()
RECURSIVE ReadHashes(_, _)
ReadHashes(inner, hashes) ==
    IF hashes = <<>> \/ ~IsSome(inner) THEN inner
    ELSE ReadHashes(Some(SetHash(inner[1], hashes[1][1], hashes[1][2], hashes[1][3])),
                    Tail(hashes))

\* Mutant: the tree is returned with whatever finish_initialize left in it
FromReaderFinish_Unchecked(index, inner) ==
    [res |-> "Ok",
     tree |-> [index |-> index,
               inner |-> IF IsSome(inner) THEN Some(FinishInitialize(inner[1])) ELSE inner,
               forgotten |-> ForgottenDefault]]

\* The tree from_reader returns, or Corrupt when finish_initialize cannot
\* resolve a hash
FromReaderFinish(index, inner) ==
    IF IsSome(inner) /\ Unresolved(inner[1])
    THEN [res |-> "Corrupt", tree |-> EmptyTree]
    ELSE [res |-> "Ok",
          tree |-> [index |-> index,
                    inner |-> IF IsSome(inner) THEN Some(FinishInitialize(inner[1])) ELSE inner,
                    forgotten |-> ForgottenDefault]]

FromReaderRead(read, hashes) == FromReaderFinish(read.index, ReadHashes(read.inner, hashes))

TreeFromReader(reader) ==
    FromReaderRead(ReadCommitments(<<>>, TopUninitialized(reader.position), reader.commitments),
                   reader.hashes)

\* How a call that gives no tree ends: from_reader returns
\* Result<Tree, R::Error>, finish_initialize returns nothing and Ok(tree)
\* follows it, so the only errors returned are the reader's and a missing
\* hash can stop the call in no other way than a panic
FromReaderPanics(r) == r.res # "Ok"

\* The tree is dropped and rebuilt from a reader that holds it
FromReader ==
    /\ ~panicked
    /\ last.op # "from_reader"
    /\ LET Returned(r) ==
               /\ tree' = IF r.res = "Ok" THEN r.tree ELSE tree
               /\ last' = [op |-> "from_reader", keep |-> FALSE, c |-> 0, res |-> r.res]
               /\ panicked' = FromReaderPanics(r)
       IN  Returned(TreeFromReader(ReaderOf(tree)))
    /\ UNCHANGED <<witnessed, leaves, seals, shadow, storage, reading, tierVars, hostVars>>

StoreNext == Next \/ FromReader

StoreSpec == Init /\ [][StoreNext]_vars

(***************************************************************************)
(* Properties of the tree and its index (StoreSpec)                        *)
(***************************************************************************)

\* C7: after every insert, end_block, end_epoch, forget and from_reader the
\* index is a bijection between the witnessed commitments and the positions
\* of their leaves: every witnessed leaf has exactly one entry pointing at its
\* position, no two commitments share a position, and no forgotten or
\* never-inserted commitment has an entry.
C7_IndexBijection ==
    /\ {<<c, tree.index[c]>> : c \in DOMAIN tree.index} = TreeWitnessedLeaves(tree)
    /\ \A c1, c2 \in DOMAIN tree.index : tree.index[c1] = tree.index[c2] => c1 = c2
    /\ DOMAIN tree.index = witnessed
    /\ \A c \in DOMAIN tree.index : tree.index[c] < PositionValue(TreePosition(tree))

C7_Witness ==
    /\ last.op = "from_reader" /\ last.res = "Ok"
    /\ Cardinality(DOMAIN tree.index) = 2
    /\ \E c \in DOMAIN tree.index : tree.index[c] >= TierCapacity
    /\ witnessed = DOMAIN tree.index

(***************************************************************************)
(* Properties of sealing (Spec)                                            *)
(***************************************************************************)
BlockCapacity == Pow(Arity, BlockHeight)
EpochCapacity == Pow(Arity, EpochHeight)

\* The block (epoch) that a seal would close: one that is not finalized yet
OpenBlock(t) ==
    /\ IsSome(t.inner)
    /\ IsSome(TierFocus(Focus(t.inner[1])))
    /\ ~TierIsFinalized(Unwrap(TierFocus(Focus(t.inner[1]))))
OpenEpoch(t) == IsSome(t.inner) /\ ~TierIsFinalized(Focus(t.inner[1]))

\* The end boundary of the tier of the given capacity that holds the last
\* position taken
EndOfTier(position, capacity) == ((position - 1) \div capacity + 1) * capacity

\* C13 as stated: end_block moves the position to the next multiple of the
\* block capacity and end_epoch to the next multiple of the epoch capacity,
\* whatever the sealed tier held.
C13_SealToNextMultiple ==
    [][LET before == PositionValue(TreePosition(tree))
           after == PositionValue(TreePosition(tree'))
       IN  /\ (last'.op = "end_block" /\ last'.res = "Ok") =>
                 after = (before \div BlockCapacity + 1) * BlockCapacity
           /\ (last'.op = "end_epoch" /\ last'.res = "Ok") =>
                 after = (before \div EpochCapacity + 1) * EpochCapacity]_vars

\* C13 amended: a seal moves the position to the end boundary of the tier it
\* seals.  With an open block (epoch) that is the smallest multiple of the
\* capacity not below the position, so a tier that is exactly full leaves the
\* position where it is; with no open block (epoch) an empty one is sealed
\* and the position advances by exactly the capacity.  An insert after a seal
\* takes the position next to the boundary.
C13_SealToTierBoundary ==
    [][LET before == PositionValue(TreePosition(tree))
           after == PositionValue(TreePosition(tree'))
       IN  /\ (last'.op = "end_block" /\ last'.res = "Ok") =>
                 /\ after % BlockCapacity = 0
                 /\ after = IF OpenBlock(tree) THEN EndOfTier(before, BlockCapacity)
                            ELSE before + BlockCapacity
                 /\ ~OpenBlock(tree')
           /\ (last'.op = "end_epoch" /\ last'.res = "Ok") =>
                 /\ after % EpochCapacity = 0
                 /\ after = IF OpenEpoch(tree) THEN EndOfTier(before, EpochCapacity)
                            ELSE before + EpochCapacity
                 /\ ~OpenEpoch(tree') /\ ~OpenBlock(tree')
           /\ (last'.op \in {"end_block", "end_epoch"} /\ last'.res # "Ok") =>
                 tree' = tree /\ before = Pow(Arity, TotalHeight)
           /\ (last'.op = "insert" /\ last'.res = "Ok") => after = before + 1]_vars

\* A block that is exactly full has been sealed: the position stands at its
\* end boundary, where it stood before the seal
C13_Witness ==
    /\ last.op = "end_block" /\ last.res = "Ok"
    /\ leaves = BlockCapacity /\ seals = 1
    /\ PositionValue(TreePosition(tree)) = BlockCapacity
    /\ ~OpenBlock(tree) /\ OpenEpoch(tree)

(***************************************************************************)
(* Finalized tiers and their hashes (Spec)                                 *)
(***************************************************************************)
\* The finalized tiers of a subtree, each as <<first position, height, hash>>:
\* a frontier tier in the Complete or Hash state, a complete tier, and a
\* hashed child that stands where a tier stood
RECURSIVE FinalizedTiers(_, _)
IsTierHeight(height) == height > 0 /\ height % TierDepth = 0
InsertFinalizedTiers(ins, base, height) ==
    IF IsKeep(ins) THEN FinalizedTiers(ins.v, base)
    ELSE IF IsTierHeight(height) THEN {<<base, height, ins.h>>}
    ELSE {}
FinalizedTiers(x, base) ==
    CASE x.k \in {"Item", "CItem"} -> {}
      [] x.k \in {"FLeaf", "CLeaf"} -> FinalizedTiers(x.item, base)
      [] x.k = "Tier" ->
            IF x.inner.tag = "Frontier" THEN FinalizedTiers(x.inner.v, base)
            ELSE IF x.inner.tag = "Hash" THEN {<<base, x.height, TierGetHash(x)>>}
            ELSE {<<base, x.height, TierGetHash(x)>>} \cup FinalizedTiers(x.inner.v, base)
      [] x.k = "CTier" ->
            {<<base, Height(x), CompleteTierGetHash(x)>>} \cup FinalizedTiers(x.inner, base)
      [] x.k = "CNode" ->
            UNION {InsertFinalizedTiers(x.children[i],
                                        base + (i - 1) * Pow(Arity, x.height - 1),
                                        x.height - 1) : i \in 1..4}
      [] x.k = "FNode" ->
            FinalizedTiers(x.focus, base + Len(x.siblings) * Pow(Arity, x.height - 1))
            \cup UNION {InsertFinalizedTiers(x.siblings[i],
                                             base + (i - 1) * Pow(Arity, x.height - 1),
                                             x.height - 1) : i \in 1..Len(x.siblings)}

TreeFinalizedTiers(t) == IF IsSome(t.inner) THEN FinalizedTiers(t.inner[1], 0) ELSE {}

\* C14: the hash of a finalized tier is the same after every later call:
\* insertions elsewhere, seals, root(), and forgets, also a forget inside the
\* tier that collapses it to a hash.  A tier stays in the tree as long as no
\* node above it is collapsed to a single hash.
C14_FinalizedHashStable ==
    [][/\ \A old \in TreeFinalizedTiers(tree), new \in TreeFinalizedTiers(tree') :
             (old[1] = new[1] /\ old[2] = new[2]) => old[3] = new[3]
       /\ \A old \in TreeFinalizedTiers(tree) :
             \/ \E new \in TreeFinalizedTiers(tree') : old[1] = new[1] /\ old[2] = new[2]
             \/ \E new \in BoundaryHashes(tree'.inner[1], 0) :
                   /\ new[2] > old[2]
                   /\ new[1] <= old[1] /\ old[1] < new[1] + Pow(Arity, new[2])]_vars

\* A sealed block next to a later one has just lost its last witnessed leaf
C14_Witness ==
    /\ last.op = "forget" /\ last.res = "true"
    /\ leaves >= 2 /\ seals >= 1
    /\ PositionValue(TreePosition(tree)) > BlockCapacity
    /\ \E t \in TreeFinalizedTiers(tree) :
          t[1] = 0 /\ t[2] = BlockHeight /\ t[3] \notin {One, Zero}
    /\ \A c \in DOMAIN tree.index : tree.index[c] >= BlockCapacity

(***************************************************************************)
(* Insert with Forget against insert with Keep followed by forget          *)
(* (PairSpec): shadow takes the same calls as tree, with every             *)
(* insert(Forget, c) made as insert(Keep, c); forget(c)                    *)
(***************************************************************************)
ShadowInserted(keep, c, r) ==
    IF keep \/ r.res # "Ok" THEN r.tree ELSE TreeForget(r.tree, c).tree

ShadowInsert(t, keep, c) == ShadowInserted(keep, c, TreeInsert(t, TRUE, c))

PairInsert(keep, c) ==
    InsertCall(keep, c) /\ shadow' = ShadowInsert(shadow, keep, c) /\ UNCHANGED <<storage, reading>>
PairEndBlock ==
    EndBlockCall /\ shadow' = TreeEndBlock(shadow).tree /\ UNCHANGED <<storage, reading>>
PairEndEpoch ==
    EndEpochCall /\ shadow' = TreeEndEpoch(shadow).tree /\ UNCHANGED <<storage, reading>>
PairForget(c) ==
    ForgetCall(c) /\ shadow' = TreeForget(shadow, c).tree /\ UNCHANGED <<storage, reading>>
PairRoot == RootCall /\ shadow' = TreeWithHash(shadow) /\ UNCHANGED <<storage, reading>>

PairNext ==
    \/ \E keep \in BOOLEAN, c \in Commitments : PairInsert(keep, c)
    \/ PairEndBlock
    \/ PairEndEpoch
    \/ \E c \in Commitments : PairForget(c)
    \/ PairRoot

PairSpec == Init /\ [][PairNext]_vars

\* C15: after any sequence of calls the tree and its shadow have the same
\* root, position and index, give the same witness for every commitment (none
\* for a commitment inserted with Forget, a proof that folds to the root for
\* each one kept), and answer the next call alike.
C15_ForgetInsertEquivalence ==
    /\ TreeRoot(tree) = TreeRoot(shadow)
    /\ TreePosition(tree) = TreePosition(shadow)
    /\ tree.index = shadow.index
    /\ \A c \in Commitments :
          /\ TreeWitness(tree, c) = TreeWitness(shadow, c)
          /\ c \notin witnessed => TreeWitness(shadow, c) = None
          /\ c \in witnessed =>
                /\ IsSome(TreeWitness(shadow, c))
                /\ PathRoot(TreeWitness(shadow, c)[1].path, TreeWitness(shadow, c)[1].position,
                            HashOf(c), TotalHeight) = TreeRoot(tree)
          /\ \A keep \in BOOLEAN : TreeInsert(tree, keep, c).res = TreeInsert(shadow, keep, c).res
          /\ TreeForget(tree, c).res = TreeForget(shadow, c).res
    /\ TreeEndBlock(tree).res = TreeEndBlock(shadow).res
    /\ TreeEndEpoch(tree).res = TreeEndEpoch(shadow).res

\* A hash has just been inserted between kept commitments, after a seal; the
\* shadow has forgotten it, so its forgotten version differs
C15_Witness ==
    /\ last.op = "insert" /\ ~last.keep /\ last.res = "Ok"
    /\ seals >= 1 /\ leaves >= 3
    /\ witnessed # {}
    /\ shadow.forgotten > tree.forgotten
    /\ shadow # tree

(***************************************************************************)
(* Forgetting what is not witnessed (Spec)                                 *)
(***************************************************************************)

\* C16: forget(c) of a commitment that is not in the index (forgotten before,
\* inserted with Forget, never inserted) returns false and leaves the root,
\* the position, the index and every witness as they were; a second forget of
\* the same commitment does so.  Tier::forget on a tier in the Hash state
\* returns false and leaves that same hash, and Tier::forget at an index
\* already forgotten returns false and changes nothing.
C16_ForgetIdempotent ==
    [][/\ (last'.op = "forget" /\ last'.c \notin DOMAIN tree.index) =>
             /\ last'.res = "false"
             /\ TreeRoot(tree') = TreeRoot(tree)
             /\ TreePosition(tree') = TreePosition(tree)
             /\ tree'.index = tree.index
             /\ \A c \in Commitments : TreeWitness(tree', c) = TreeWitness(tree, c)
             /\ tree' = tree
       /\ (last'.op = "forget" /\ last'.c \in DOMAIN tree.index) =>
             /\ last'.res = "true"
             /\ TreeForget(tree', last'.c) = [res |-> FALSE, tree |-> tree']
       /\ \A t \in FrontierTiers(tree') :
             t.inner.tag = "Hash" =>
                \A index \in 0..(Pow(Arity, t.height) - 1) :
                   TierForget(t, Some(tree'.forgotten), index) = [this |-> t, did |-> FALSE]
       /\ (last'.op = "forget" /\ tree' # tree) =>
             \A t \in FrontierTiers(tree') :
                \A index \in 0..(Pow(Arity, t.height) - 1) :
                   LET r == TierForget(t, Some(tree'.forgotten), index)
                   IN  /\ TierGetHash(r.this) = TierGetHash(t)
                       /\ TierForget(r.this, Some(tree'.forgotten), index)
                             = [this |-> r.this, did |-> FALSE]]_vars

\* A commitment forgotten before is forgotten again, next to a kept one, with
\* a block on the frontier that has collapsed to a hash
C16_Witness ==
    /\ last.op = "forget" /\ last.res = "false"
    /\ tree.forgotten >= 1
    /\ last.c \notin DOMAIN tree.index
    /\ witnessed # {}
    /\ \E t \in FrontierTiers(tree) : t.inner.tag = "Hash" /\ t.inner.h \notin {One, Zero}

(***************************************************************************)
(* The structure of a tree as the serializer walks it (structure::Node):   *)
(* one node per position and height, a leaf at height 0.  Leaves and tiers *)
(* are transparent: they show the kind and the children of what they hold. *)
(***************************************************************************)
\* Place: a node is on the frontier when the last position taken is in its
\* range
PlaceOf(position, height, tip) ==
    IF tip < 0 \/ (position <= tip /\ tip < position + Pow(Arity, height))
    THEN "Frontier" ELSE "Complete"

StructureNode(position, height, tip, commitment, forgotten, cached, hash, children) ==
    [position |-> position, height |-> height, place |-> PlaceOf(position, height, tip),
     commitment |-> commitment, forgotten |-> forgotten, cached |-> cached,
     hash |-> hash, children |-> children]

RECURSIVE SeqMax(_)
SeqMax(seq) ==
    IF seq = <<>> THEN 0
    ELSE IF Head(seq) >= SeqMax(Tail(seq)) THEN Head(seq) ELSE SeqMax(Tail(seq))

\* structure::Any::forgotten for frontier::Tier: a tier in the Hash state
\* reports the default version
TierForgotten(self) ==
    IF self.inner.tag = "Hash" THEN ForgottenDefault ELSE SeqMax(self.inner.v.forgotten)

\* structure::Any::forgotten for complete::Tier
CompleteTierForgotten(self) == SeqMax(self.inner.forgotten)

RECURSIVE StructureOf(_, _, _, _)
\* A child that is kept, or the hash that stands for it
InsertStructureOf(ins, height, position, tip, stamp) ==
    IF IsKeep(ins) THEN StructureOf(ins.v, position, tip, stamp)
    ELSE StructureNode(position, height, tip, None, stamp, Some(ins.h), ins.h, <<>>)
StructureOf(x, position, tip, stamp) ==
    CASE x.k = "Item" ->
            StructureNode(position, 0, tip, IF x.keep THEN Some(x.c) ELSE None, stamp,
                          Some(x.h), x.h, <<>>)
      [] x.k = "CItem" ->
            StructureNode(position, 0, tip, Some(x.c), stamp, Some(x.h), x.h, <<>>)
      [] x.k \in {"FLeaf", "CLeaf"} -> StructureOf(x.item, position, tip, stamp)
      [] x.k = "Tier" ->
            IF x.inner.tag = "Hash"
            THEN StructureNode(position, x.height, tip, None, TierForgotten(x),
                               Some(x.inner.h), x.inner.h, <<>>)
            ELSE StructureOf(x.inner.v, position, tip, TierForgotten(x))
      [] x.k = "CTier" -> StructureOf(x.inner, position, tip, CompleteTierForgotten(x))
      [] x.k = "CNode" ->
            StructureNode(position, x.height, tip, None, stamp, x.hash, CompleteNodeGetHash(x),
                [i \in 1..4 |->
                    InsertStructureOf(x.children[i], x.height - 1,
                                      position + (i - 1) * Pow(Arity, x.height - 1),
                                      tip, x.forgotten[i])])
      [] x.k = "FNode" ->
            StructureNode(position, x.height, tip, None, stamp, x.hash, NodeGetHash(x),
                [i \in 1..(Len(x.siblings) + 1) |->
                    IF i <= Len(x.siblings)
                    THEN InsertStructureOf(x.siblings[i], x.height - 1,
                                           position + (i - 1) * Pow(Arity, x.height - 1),
                                           tip, x.forgotten[i])
                    ELSE StructureOf(x.focus, position + (i - 1) * Pow(Arity, x.height - 1),
                                     tip, x.forgotten[i])])

\* Tree::structure: the node of the top
TreeStructure(t) ==
    IF IsSome(t.inner)
    THEN StructureOf(t.inner[1], 0, PositionValue(TreePosition(t)) - 1,
                     SeqMax(t.inner[1].forgotten))
    ELSE StructureNode(0, TotalHeight, 0 - 1, None, ForgottenDefault, None, TreeRoot(t), <<>>)

\* structure::Node::range
StructureRange(node) == node.position .. (node.position + Pow(Arity, node.height) - 1)

(***************************************************************************)
(* Serializer (storage/serialize.rs)                                       *)
(***************************************************************************)
MkSerializer(keep_internal, minimum_position, last_forgotten) ==
    [keep_internal |-> keep_internal, minimum_position |-> minimum_position,
     last_forgotten |-> last_forgotten]

\* u64::from(position) >= minimum_position.map(Into::into).unwrap_or(u64::MAX):
\* no position of the tree reaches u64::MAX
AtLeastMinimum(self, position) ==
    IsSome(self.minimum_position) /\ position >= Unwrap(self.minimum_position)

\* Mutant: with keep_internal the hash of any node is kept
should_keep_hash_AnyPlace(self, node, children) ==
    \/ ~(children > 0 \/ IsSome(node.commitment))
    \/ self.keep_internal

should_keep_hash(self, node, children) ==
    LET is_recalculable == children > 0 \/ (node.height = 0 /\ IsSome(node.commitment))
        is_essential == ~is_recalculable
        is_frontier == node.place = "Frontier"
        is_complete == ~is_frontier
    IN  is_essential \/ (is_complete /\ self.keep_internal)

should_keep_children(self, node) ==
    IF IsSome(self.minimum_position)
    THEN Unwrap(self.minimum_position) \in StructureRange(node)
    ELSE FALSE

\* The streams of the children of a node, one after the other
RECURSIVE hashes_inner(_, _)
RECURSIVE hashes_children(_, _, _)
hashes_children(options, children, i) ==
    IF i > Len(children) THEN <<>>
    ELSE hashes_inner(options, children[i]) \o hashes_children(options, children, i + 1)
hashes_inner(options, node) ==
    (IF /\ AtLeastMinimum(options, node.position)
        /\ should_keep_hash(options, node, Len(node.children))
        /\ IsSome(node.cached)
     THEN <<<<node.position, node.height, Unwrap(node.cached)>>>>
     ELSE <<>>)
    \o (IF should_keep_children(options, node)
        THEN hashes_children(options, node.children, 1)
        ELSE <<>>)

hashes_stream(self, t) == hashes_inner(self, TreeStructure(t))

RECURSIVE commitments_inner(_, _)
RECURSIVE commitments_children(_, _, _)
commitments_children(options, children, i) ==
    IF i > Len(children) THEN <<>>
    ELSE commitments_inner(options, children[i])
         \o commitments_children(options, children, i + 1)
commitments_inner(options, node) ==
    (IF /\ AtLeastMinimum(options, node.position)
        /\ node.height = 0 /\ IsSome(node.commitment)
     THEN <<<<node.position, Unwrap(node.commitment)>>>>
     ELSE <<>>)
    \o (IF should_keep_children(options, node)
        THEN commitments_children(options, node.children, 1)
        ELSE <<>>)

commitments_stream(self, t) == commitments_inner(self, TreeStructure(t))

RECURSIVE forgotten_inner(_, _)
RECURSIVE forgotten_children(_, _, _)
forgotten_children(options, children, i) ==
    IF i > Len(children) THEN <<>>
    ELSE forgotten_inner(options, children[i]) \o forgotten_children(options, children, i + 1)
forgotten_inner(options, node) ==
    IF ~AtLeastMinimum(options, node.position) /\ node.forgotten > options.last_forgotten
    THEN IF node.children = <<>>
         THEN <<<<node.position, node.height, node.hash>>>>
         ELSE forgotten_children(options, node.children, 1)
    ELSE <<>>

forgotten_stream(self, t) == forgotten_inner(self, TreeStructure(t))

(***************************************************************************)
(* The storage adapter (storage::Write, storage::Read) and to_writer       *)
(***************************************************************************)
\* Write::add_hash: the hash stored at a position and height
add_hash(writer, position, height, hash) ==
    [writer EXCEPT !.hashes =
        {point \in writer.hashes : ~(point[1] = position /\ point[2] = height)}
        \cup {<<position, height, hash>>}]

\* Write::delete_range: what is stored below the height at the positions
\* first..(end - 1) goes away
delete_range(writer, below_height, first, end) ==
    [writer EXCEPT
        !.hashes = {point \in writer.hashes :
                      ~(first <= point[1] /\ point[1] < end /\ point[2] < below_height)},
        !.commitments = {point \in writer.commitments :
                           ~(first <= point[1] /\ point[1] < end)}]

\* Write::set_position
set_position(writer, position) == [writer EXCEPT !.position = position]

\* The loop over new_hashes
RECURSIVE WriteHashes(_, _)
WriteHashes(writer, points) ==
    IF points = <<>> THEN writer
    ELSE WriteHashes(add_hash(writer, points[1][1], points[1][2], points[1][3]), Tail(points))

Minimum(a, b) == IF a <= b THEN a ELSE b

\* The end of the range deleted for a forgotten point
DeleteEnd(position, below_height) ==
    Minimum(position + Pow(Arity, below_height), Pow(Arity, TotalHeight) - 1)

\* The loop over forgotten_points
RECURSIVE DeleteForgotten(_, _)
DeleteForgotten(writer, points) ==
    IF points = <<>> THEN writer
    ELSE DeleteForgotten(delete_range(writer, points[1][2], points[1][1],
                                      DeleteEnd(points[1][1], points[1][2])),
                         Tail(points))

to_writer(keep_internal, last_forgotten, writer, t) ==
    set_position(
        DeleteForgotten(
            WriteHashes(writer,
                        hashes_stream(MkSerializer(keep_internal, writer.position,
                                                   last_forgotten), t)),
            forgotten_stream(MkSerializer(keep_internal, writer.position, last_forgotten), t)),
        TreePosition(t))

\* What a reader of the storage hands to from_reader
StorageReader(stored) ==
    [position |-> stored.position,
     commitments |-> StreamOf(stored.commitments),
     hashes |-> StreamOf(stored.hashes)]

\* A pass: the caller hands in the forgotten version of its previous pass
\* and remembers the version of the tree it has written
ToWriter(keep_internal) ==
    /\ ~panicked
    /\ storage.passes < MaxPasses
    /\ storage' = [to_writer(keep_internal, storage.forgotten, storage, tree)
                      EXCEPT !.forgotten = tree.forgotten, !.passes = storage.passes + 1]
    /\ last' = [op |-> "to_writer", keep |-> FALSE, c |-> 0, res |-> "Ok"]
    /\ UNCHANGED <<tree, witnessed, leaves, seals, shadow, reading, tierVars, hostVars, panicked>>

\* The calls that grow a tree that is written to storage
StoredInsert(keep, c) == leaves + seals < MaxStoredOps /\ Insert(keep, c)
StoredEndBlock == leaves + seals < MaxStoredOps /\ EndBlock
StoredEndEpoch == leaves + seals < MaxStoredOps /\ EndEpoch

WriteNext ==
    \/ \E keep \in BOOLEAN, c \in Commitments : StoredInsert(keep, c)
    \/ StoredEndBlock
    \/ StoredEndEpoch
    \/ \E c \in Commitments : ForgetCommitment(c)
    \/ Root
    \/ \E keep_internal \in BOOLEAN : ToWriter(keep_internal)

WriteSpec == Init /\ [][WriteNext]_vars

(***************************************************************************)
(* Round trips through the storage (WriteSpec)                             *)
(***************************************************************************)
\* to_writer against an empty storage adapter, then from_reader
RoundTrip(t, keep_internal) ==
    TreeFromReader(StorageReader(to_writer(keep_internal, ForgottenDefault, EmptyStorage, t)))

\* Whether a rebuilt tree equals the live one in root, position and the
\* witness of every witnessed commitment
SameAsLive(r, t) ==
    /\ r.res = "Ok"
    /\ TreeRoot(r.tree) = TreeRoot(t)
    /\ TreePosition(r.tree) = TreePosition(t)
    /\ \A c \in DOMAIN t.index : TreeWitness(r.tree, c) = TreeWitness(t, c)

\* C17: for every reachable tree, to_writer to an empty storage adapter and
\* then from_reader gives a tree with the same root, the same position and,
\* for every witnessed commitment, the same witness.
C17_RoundTrip ==
    \A keep_internal \in BOOLEAN : SameAsLive(RoundTrip(tree, keep_internal), tree)

\* What a fresh from_reader of the storage gives
Restored == TreeFromReader(StorageReader(storage))

\* The commitments the storage holds, as (position, commitment) points
StoredCommitments == {<<point[1], point[2]>> : point \in storage.commitments}

\* C18: after every to_writer pass against the same storage, with insertions,
\* seals and forgets in between and each pass taking the stored position as
\* minimum position and the forgotten version written before, a fresh
\* from_reader of the storage equals the live tree in root, position and the
\* witness of every commitment; the storage holds every witnessed commitment
\* and none that was forgotten.
C18_IncrementalRoundTrip ==
    last.op = "to_writer" =>
        /\ SameAsLive(Restored, tree)
        /\ StoredCommitments = {<<leaf[2], leaf[1]>> : leaf \in TreeWitnessedLeaves(tree)}

(***************************************************************************)
(* from_reader, one point of the reader's streams at a time (ReadSpec)     *)
(***************************************************************************)
\* The points of a stream
RangeOf(stream) == {stream[i] : i \in 1..Len(stream)}

\* What a reader holds for a tree: its position, the surviving commitments,
\* the hashes at the boundaries of pruned subtrees and, with keep_internal,
\* the hashes of complete nodes that the serializer emits as well
ReaderCommitments(t) == {<<leaf[2], leaf[1]>> : leaf \in TreeWitnessedLeaves(t)}
ReaderHashes(t, keep_internal) ==
    (IF IsSome(t.inner) THEN BoundaryHashes(t.inner[1], 0) ELSE {})
    \cup (IF keep_internal
          THEN RangeOf(hashes_stream(MkSerializer(TRUE, Some(0), ForgottenDefault), t))
          ELSE {})

\* Whether a stream that yields `point` with `rest` still to come is out of
\* ascending order
OutOfOrder(point, rest) ==
    \E other \in rest \ {point} :
        other[1] < point[1] \/ (other[1] = point[1] /\ other[2] < point[2])

\* The readers that hold all of the hashes, or all but one of them
Lacking(hashes) == {hashes} \cup {hashes \ {point} : point \in hashes}

\* from_reader begins: reader.position() and OutOfOrder::uninitialized
BeginRead(keep_internal) ==
    /\ ~panicked
    /\ reading.phase = "idle"
    /\ \E hashes \in Lacking(ReaderHashes(tree, keep_internal)) :
          reading' = [phase |-> "reading",
                      position |-> TreePosition(tree),
                      commitments |-> ReaderCommitments(tree),
                      hashes |-> hashes,
                      unread |-> ReaderCommitments(tree),
                      unset |-> hashes,
                      shuffled |-> {},
                      index |-> <<>>,
                      inner |-> TopUninitialized(TreePosition(tree)),
                      returned |-> NotReading.returned]
    /\ UNCHANGED <<tree, witnessed, leaves, seals, last, shadow, storage, tierVars, hostVars, panicked>>

\* One turn of the loop over reader.commitments(), which yields any of the
\* commitments it has yet to yield
ReadCommitment ==
    /\ reading.phase = "reading"
    /\ \E point \in reading.unread :
       LET Read(read) ==
               reading' = [reading EXCEPT
                   !.unread = @ \ {point},
                   !.shuffled = IF OutOfOrder(point, reading.unread)
                                THEN @ \cup {"commitments"} ELSE @,
                   !.index = read.index,
                   !.inner = read.inner]
       IN  Read(ReadCommitments(reading.index, reading.inner, <<point>>))
    /\ UNCHANGED <<tree, witnessed, leaves, seals, last, shadow, storage, tierVars, hostVars, panicked>>

\* One turn of the loop over reader.hashes(), once the commitments are read
ReadHash ==
    /\ reading.phase = "reading"
    /\ reading.unread = {}
    /\ \E point \in reading.unset :
          reading' = [reading EXCEPT
              !.unset = @ \ {point},
              !.shuffled = IF OutOfOrder(point, reading.unset) THEN @ \cup {"hashes"} ELSE @,
              !.inner = ReadHashes(reading.inner, <<point>>)]
    /\ UNCHANGED <<tree, witnessed, leaves, seals, last, shadow, storage, tierVars, hostVars, panicked>>

\* finish_initialize and the return of from_reader
FinishRead ==
    /\ reading.phase = "reading"
    /\ reading.unread = {}
    /\ reading.unset = {}
    /\ LET Returned(r) ==
               /\ reading' = [reading EXCEPT !.phase = "done", !.returned = r]
               /\ panicked' = FromReaderPanics(r)
       IN  Returned(FromReaderFinish(reading.index, reading.inner))
    /\ UNCHANGED <<tree, witnessed, leaves, seals, last, shadow, storage, tierVars, hostVars>>

ReadInsert(keep, c) ==
    reading.phase = "idle" /\ leaves + seals < MaxReadOps /\ Insert(keep, c)
ReadEndBlock == reading.phase = "idle" /\ leaves + seals < MaxReadOps /\ EndBlock
ReadEndEpoch == reading.phase = "idle" /\ leaves + seals < MaxReadOps /\ EndEpoch
ReadForget(c) == reading.phase = "idle" /\ ForgetCommitment(c)
ReadRoot == reading.phase = "idle" /\ Root

ReadNext ==
    \/ \E keep \in BOOLEAN, c \in Commitments : ReadInsert(keep, c)
    \/ ReadEndBlock
    \/ ReadEndEpoch
    \/ \E c \in Commitments : ReadForget(c)
    \/ ReadRoot
    \/ \E keep_internal \in BOOLEAN : BeginRead(keep_internal)
    \/ ReadCommitment
    \/ ReadHash
    \/ FinishRead

ReadSpec == Init /\ [][ReadNext]_vars

\* from_reader with both streams in ascending order
ReadInOrder ==
    TreeFromReader([position |-> reading.position,
                    commitments |-> StreamOf(reading.commitments),
                    hashes |-> StreamOf(reading.hashes)])

\* Two results of from_reader that cannot be told apart
SameRead(a, b) ==
    /\ a.res = b.res
    /\ a.res = "Ok" =>
          /\ TreeRoot(a.tree) = TreeRoot(b.tree)
          /\ TreePosition(a.tree) = TreePosition(b.tree)
          /\ a.tree.index = b.tree.index
          /\ \A c \in Commitments : TreeWitness(a.tree, c) = TreeWitness(b.tree, c)

\* C19: from_reader returns the same tree (root, position, index, witnesses)
\* whatever the order in which the reader yields its commitments and whatever
\* the order in which it yields its hashes: every order gives what the
\* ascending order gives.
C19_OrderIndependent ==
    reading.phase = "done" => SameRead(reading.returned, ReadInOrder)

C19_Witness ==
    /\ reading.phase = "done"
    /\ reading.shuffled = {"commitments", "hashes"}
    /\ reading.returned.res = "Ok"
    /\ Cardinality(DOMAIN reading.returned.tree.index) = NumCommitments
    /\ Cardinality(reading.hashes) >= 3
    /\ \A c \in Commitments : TreeWitness(reading.returned.tree, c) = TreeWitness(tree, c)
    /\ TreeRoot(reading.returned.tree) = TreeRoot(tree)

(***************************************************************************)
(* The hashes that can be seen of a tree that from_reader returned         *)
(***************************************************************************)
\* Hash::is_uninitialized, or a hash computed from an uninitialized one
RECURSIVE HoldsUninitialized(_)
HoldsUninitialized(hash) ==
    \/ hash = Uninitialized
    \/ /\ hash[1] = "node"
       /\ \E i \in 3..6 : HoldsUninitialized(hash[i])

\* The hashes of a witness: the leaf and the siblings along the path
WitnessHashes(w) ==
    IF IsSome(w)
    THEN {w[1].leaf} \cup UNION {RangeOf(w[1].path[i]) : i \in 1..Len(w[1].path)}
    ELSE {}

\* The hashes the serializer streams emit for a tree, whatever the options,
\* the minimum position and the last forgotten version
StreamHashes(t) ==
    UNION {{point[3] : point \in RangeOf(hashes_stream(MkSerializer(keep_internal, minimum, 0), t))
                                 \cup RangeOf(forgotten_stream(MkSerializer(keep_internal, minimum, 0), t))} :
           keep_internal \in BOOLEAN,
           minimum \in {None} \cup {Some(position) : position \in 0..PositionValue(TreePosition(t))}}

ObservableHashes(t) ==
    {TreeRoot(t)} \cup UNION {WitnessHashes(TreeWitness(t, c)) : c \in Commitments}
                 \cup StreamHashes(t)

CorruptInput == IsSome(reading.inner) /\ Unresolved(Unwrap(reading.inner))

\* C21: when the reader's data leave a hash-only boundary without a stored
\* hash, from_reader returns a Corrupt error to its caller, it does not panic,
\* and it returns no tree.
C21_CorruptReported ==
    reading.phase = "done" /\ CorruptInput =>
        /\ reading.returned.res = "Corrupt"
        /\ reading.returned.tree = EmptyTree
        /\ ~panicked

(***************************************************************************)
(* What the serializer streams emit (WriteSpec)                            *)
(***************************************************************************)
\* The minimum positions a serializer may be given for a tree
Minimums(t) == {None} \cup {Some(position) : position \in 0..PositionValue(TreePosition(t))}

\* The witnessed leaves at or after the minimum position, as points
WitnessedFrom(t, minimum) ==
    {<<leaf[2], leaf[1]>> : leaf \in {l \in TreeWitnessedLeaves(t) :
                                        IsSome(minimum) /\ l[2] >= Unwrap(minimum)}}

\* A stream that yields exactly the points of a set, each once
YieldsExactly(stream, points) ==
    RangeOf(stream) = points /\ Len(stream) = Cardinality(points)

\* C22: for every minimum position m, commitments_stream emits (p, c) exactly
\* once for every witnessed leaf of the tree at a position p >= m, wherever
\* it lies in the tree, and nothing else.
C22_CommitmentsStreamExact ==
    \A keep_internal \in BOOLEAN, minimum \in Minimums(tree) :
        YieldsExactly(commitments_stream(MkSerializer(keep_internal, minimum, ForgottenDefault), tree),
                      WitnessedFrom(tree, minimum))

\* Every node of a structure: the node and the nodes beneath it
RECURSIVE NodesOf(_)
NodesOf(node) ==
    {node} \cup UNION {NodesOf(node.children[i]) : i \in 1..Len(node.children)}

\* A node whose hash is worth persisting: an essential one (no children and
\* not a witnessed leaf) or, with keep_internal, a complete one
WorthPersisting(keep_internal, node) ==
    \/ Len(node.children) = 0 /\ ~IsSome(node.commitment)
    \/ keep_internal /\ node.place = "Complete"

\* The points of the nodes at or after the minimum position whose hash is
\* worth persisting and is at hand (cached_hash() is Some)
HashesFrom(t, keep_internal, minimum) ==
    {<<node.position, node.height, node.hash>> :
        node \in {n \in NodesOf(TreeStructure(t)) :
                    /\ IsSome(minimum) /\ n.position >= Unwrap(minimum)
                    /\ WorthPersisting(keep_internal, n)
                    /\ IsSome(n.cached)}}

\* C23: for every minimum position m, hashes_stream emits (position, height,
\* hash) for every node at a position >= m whose hash is worth persisting
\* (and has been computed), and for no other node.
C23_HashesStreamExact ==
    \A keep_internal \in BOOLEAN, minimum \in Minimums(tree) :
        RangeOf(hashes_stream(MkSerializer(keep_internal, minimum, ForgottenDefault), tree))
            = HashesFrom(tree, keep_internal, minimum)

\* Where the nodes of a set are: their positions and heights
PlacesOf(nodes) == {<<n.position, n.height>> : n \in nodes}

\* No point of any hashes_stream of the tree is at one of the places
NoneEmittedAt(places) ==
    \A keep_internal \in BOOLEAN, minimum \in Minimums(tree) :
        \A point \in RangeOf(hashes_stream(MkSerializer(keep_internal, minimum, ForgottenDefault), tree)) :
            <<point[1], point[2]>> \notin places

Covers(point, position) ==
    point[1] <= position /\ position < point[1] + Pow(Arity, point[2])

\* Whether the forgotten stream of a tree, for a storage that holds the
\* positions below the minimum and has seen the forgets up to a version,
\* reports a location that covers a position
ReportsForgotten(t, minimum, version, position) ==
    \E point \in RangeOf(forgotten_stream(MkSerializer(TRUE, minimum, version), t)) :
        Covers(point, position)

\* C25: the forgotten stream reports every location forgotten since the last
\* pass that storage already holds: when forget(c) succeeds at version v on
\* a commitment at a position below the minimum position, the stream for
\* last_forgotten = v emits a childless location that covers the position;
\* and the stream emits no location at or above the minimum position and
\* none whose stamp is at most last_forgotten.
C25_ForgottenReported ==
    [][/\ \A c \in DOMAIN tree.index :
            (last'.op = "forget" /\ last'.c = c /\ last'.res = "true"
                /\ tree'.forgotten > tree.forgotten) =>
                \A minimum \in Minimums(tree') :
                    (IsSome(minimum) => tree.index[c] < Unwrap(minimum)) =>
                        ReportsForgotten(tree', minimum, tree.forgotten, tree.index[c])
       /\ \A minimum \in Minimums(tree'), version \in 0..tree'.forgotten :
            \A point \in RangeOf(forgotten_stream(MkSerializer(TRUE, minimum, version), tree')) :
                /\ IsSome(minimum) => point[1] < Unwrap(minimum)
                /\ \E node \in NodesOf(TreeStructure(tree')) :
                      /\ node.position = point[1] /\ node.height = point[2]
                      /\ node.children = <<>> /\ node.forgotten > version
                      /\ node.hash = point[3]]_vars

(***************************************************************************)
(* to_writer call by call (RunSpec): every call on the writer is a step    *)
(* that the storage adapter may fail, and the `?` after it returns the     *)
(* adapter's error from to_writer                                          *)
(***************************************************************************)
MaxRunOps == 2
AdapterErrors == {"busy", "closed"}
Failures == {None} \cup {Some(e) : e \in AdapterErrors}

\* A tree used up to its last block: three sealed empty epochs, three sealed
\* empty blocks, two forgotten leaves and two witnessed commitments at the
\* last two positions
TailCalls ==
    <<[op |-> "end_epoch", keep |-> FALSE, c |-> 0],
      [op |-> "end_epoch", keep |-> FALSE, c |-> 0],
      [op |-> "end_epoch", keep |-> FALSE, c |-> 0],
      [op |-> "end_block", keep |-> FALSE, c |-> 0],
      [op |-> "end_block", keep |-> FALSE, c |-> 0],
      [op |-> "end_block", keep |-> FALSE, c |-> 0],
      [op |-> "insert", keep |-> FALSE, c |-> 1],
      [op |-> "insert", keep |-> FALSE, c |-> 1],
      [op |-> "insert", keep |-> TRUE, c |-> 1],
      [op |-> "insert", keep |-> TRUE, c |-> 2]>>

\* The tree after a sequence of calls
RECURSIVE Replay(_, _)
Replay(t, calls) ==
    IF calls = <<>> THEN t
    ELSE Replay(CASE Head(calls).op = "end_epoch" -> TreeEndEpoch(t).tree
                  [] Head(calls).op = "end_block" -> TreeEndBlock(t).tree
                  [] Head(calls).op = "insert" ->
                        TreeInsert(t, Head(calls).keep, Head(calls).c).tree,
                Tail(calls))

TailTree == Replay(EmptyTree, TailCalls)

\* The tree, what the caller knows of it, and the storage after one pass
\* over it
TailStart(t) ==
    /\ tree = t
    /\ storage = [to_writer(TRUE, ForgottenDefault, EmptyStorage, t)
                     EXCEPT !.forgotten = t.forgotten, !.passes = 1]
    /\ witnessed = DOMAIN t.index
    /\ leaves = 4
    /\ seals = 6

RunInit ==
    /\ \/ /\ tree = EmptyTree
          /\ storage = EmptyStorage
          /\ witnessed = {}
          /\ leaves = 0
          /\ seals = 0
       \/ TailStart(TailTree)
    /\ last = NoCall
    /\ shadow = EmptyTree
    /\ reading = NotReading
    /\ writing = NotWriting
    /\ app = NoApp
    /\ view = NoView
    /\ IdleTier
    /\ panicked = FALSE

\* A call on the writer: what it was given and the error it failed with
WriterCall(op, point, range) == [op |-> op, point |-> point, range |-> range, error |-> None]

\* Mutant: the error of a call on the writer is dropped
AfterCall_Ignored(run, call, failure) ==
    [run EXCEPT !.calls = Append(@, [call EXCEPT !.error = failure])]

\* `writer.call(..).await?`: a failed call ends to_writer with its error
AfterCall(run, call, failure) ==
    IF IsSome(failure)
    THEN [run EXCEPT !.phase = "done",
                     !.calls = Append(@, [call EXCEPT !.error = failure]),
                     !.returned = [res |-> "Err", error |-> failure]]
    ELSE [run EXCEPT !.calls = Append(@, call)]

\* The caller counts the pass when to_writer has returned
PassOf(writer, run) ==
    IF run.phase = "done" THEN [writer EXCEPT !.passes = @ + 1] ELSE writer

\* let minimum_position = writer.position().await?; and the serializer
BeginRun(keep_internal, failure) ==
    /\ ~panicked
    /\ writing.phase # "running"
    /\ storage.passes < MaxPasses
    /\ LET serializer == MkSerializer(keep_internal, storage.position, storage.forgotten)
           Started(hashes, forgotten) ==
               [phase |-> "running", hashes |-> hashes, forgotten |-> forgotten,
                new_hashes |-> hashes, forgotten_points |-> forgotten, calls |-> <<>>,
                stored |-> storage.position, returned |-> [res |-> "none", error |-> None]]
       IN  writing' = AfterCall(Started(hashes_stream(serializer, tree),
                                        forgotten_stream(serializer, tree)),
                                WriterCall("position", <<>>, <<>>), failure)
    /\ storage' = PassOf(storage, writing')
    /\ UNCHANGED <<tree, witnessed, leaves, seals, last, shadow, reading, app, view,
                   tierVars, panicked>>

\* writer.add_hash(position, height, hash).await? for the next new hash
RunAddHash(failure) ==
    /\ writing.phase = "running"
    /\ writing.new_hashes # <<>>
    /\ LET point == Head(writing.new_hashes)
       IN  /\ writing' = [AfterCall(writing, WriterCall("add_hash", point, <<>>), failure)
                             EXCEPT !.new_hashes = Tail(@)]
           /\ storage' = PassOf(IF IsSome(failure) THEN storage
                                ELSE add_hash(storage, point[1], point[2], point[3]),
                                writing')
    /\ UNCHANGED <<tree, witnessed, leaves, seals, last, shadow, reading, app, view,
                   tierVars, panicked>>

\* writer.delete_range(below_height, range).await? for the next forgotten
\* point
RunDeleteRange(failure) ==
    /\ writing.phase = "running"
    /\ writing.new_hashes = <<>>
    /\ writing.forgotten_points # <<>>
    /\ LET point == Head(writing.forgotten_points)
           end == DeleteEnd(point[1], point[2])
       IN  /\ writing' = [AfterCall(writing,
                                    WriterCall("delete_range", point, <<point[1], end>>),
                                    failure)
                             EXCEPT !.forgotten_points = Tail(@)]
           /\ storage' = PassOf(IF IsSome(failure) THEN storage
                                ELSE delete_range(storage, point[2], point[1], end),
                                writing')
    /\ UNCHANGED <<tree, witnessed, leaves, seals, last, shadow, reading, app, view,
                   tierVars, panicked>>

\* writer.set_position(tree.position()).await?; Ok(())
RunSetPosition(failure) ==
    /\ writing.phase = "running"
    /\ writing.new_hashes = <<>>
    /\ writing.forgotten_points = <<>>
    /\ LET Returned(run) ==
               IF run.phase = "done" THEN run
               ELSE [run EXCEPT !.phase = "done", !.returned = [res |-> "Ok", error |-> None]]
       IN  writing' = Returned(AfterCall(writing,
                                         WriterCall("set_position", <<TreePosition(tree)>>, <<>>),
                                         failure))
    /\ storage' = PassOf(IF IsSome(failure) THEN storage
                         ELSE [set_position(storage, TreePosition(tree))
                                  EXCEPT !.forgotten = tree.forgotten],
                         writing')
    /\ UNCHANGED <<tree, witnessed, leaves, seals, last, shadow, reading, app, view,
                   tierVars, panicked>>

\* The calls on the tree, between the to_writer calls that borrow it
RunInsert(keep, c) ==
    writing.phase # "running" /\ leaves + seals < MaxRunOps /\ Insert(keep, c)
RunEndBlock == writing.phase # "running" /\ leaves + seals < MaxRunOps /\ EndBlock
RunEndEpoch == writing.phase # "running" /\ leaves + seals < MaxRunOps /\ EndEpoch
RunForget(c) == writing.phase # "running" /\ ForgetCommitment(c)
RunRoot == writing.phase # "running" /\ Root

RunNext ==
    \/ \E keep \in BOOLEAN, c \in Commitments : RunInsert(keep, c)
    \/ RunEndBlock
    \/ RunEndEpoch
    \/ \E c \in Commitments : RunForget(c)
    \/ RunRoot
    \/ \E keep_internal \in BOOLEAN, failure \in Failures : BeginRun(keep_internal, failure)
    \/ \E failure \in Failures : RunAddHash(failure)
    \/ \E failure \in Failures : RunDeleteRange(failure)
    \/ \E failure \in Failures : RunSetPosition(failure)

RunSpec == RunInit /\ [][RunNext]_vars

\* The positions of the tree
Positions == 0..(Pow(Arity, TotalHeight) - 1)

\* C26: for each forgotten triple (position, height, _) to_writer deletes
\* exactly the positions position .. position + 4^height - 1 that are in the
\* tree: every position of the forgotten subtree, the last position of the
\* tree included, is inside the range passed to delete_range, and no other
\* position is.
C26_DeleteRangeExact ==
    \A i \in DOMAIN writing.calls :
        writing.calls[i].op = "delete_range" =>
            \A position \in Positions :
                Covers(writing.calls[i].point, position)
                    <=> (/\ writing.calls[i].range[1] <= position
                         /\ position < writing.calls[i].range[2])

\* The points given to the calls of one kind, in the order of the calls
RECURSIVE PointsOf(_, _)
PointsOf(calls, op) ==
    IF calls = <<>> THEN <<>>
    ELSE (IF Head(calls).op = op THEN <<Head(calls).point>> ELSE <<>>)
         \o PointsOf(Tail(calls), op)

\* Whether every call before the i-th has returned successfully
AllOkBefore(calls, i) == \A j \in 1..(i - 1) : ~IsSome(calls[j].error)

\* C27: in every to_writer run the new tree position is persisted last.
\* set_position(tree.position()) is called only after writer.position() and
\* an add_hash for every new hash and a delete_range for every forgotten
\* point have returned successfully, and it is the last call of the run; a
\* run that returns Ok has called it exactly once; a run in which a call
\* fails returns the error of that call, makes no call after it, and leaves
\* the stored position as it was when the run began.
C27_PositionLast ==
    LET calls == writing.calls
    IN  /\ \A i \in DOMAIN calls :
              calls[i].op = "set_position" =>
                  /\ i = Len(calls)
                  /\ AllOkBefore(calls, i)
                  /\ calls[1].op = "position"
                  /\ PointsOf(calls, "add_hash") = writing.hashes
                  /\ PointsOf(calls, "delete_range") = writing.forgotten
        /\ \A i \in DOMAIN calls : IsSome(calls[i].error) => i = Len(calls)
        /\ writing.returned.res = "Ok" =>
              /\ calls # <<>>
              /\ calls[Len(calls)].op = "set_position"
              /\ ~IsSome(calls[Len(calls)].error)
              /\ <<storage.position>> = calls[Len(calls)].point
        /\ writing.returned.res = "Err" =>
              /\ calls # <<>>
              /\ calls[Len(calls)].error = writing.returned.error
              /\ IsSome(writing.returned.error)
              /\ storage.position = writing.stored
        /\ writing.phase = "running" =>
              /\ storage.position = writing.stored
              /\ \A i \in DOMAIN calls : ~IsSome(calls[i].error)
        /\ writing.phase = "done" => writing.returned.res \in {"Ok", "Err"}

\* A second run that fails after it has added a hash, on a storage whose
\* position an earlier run has set
C27_Witness ==
    /\ writing.returned.res = "Err"
    /\ storage.passes = 2
    /\ storage.position # Some(0)
    /\ \E i \in DOMAIN writing.calls : writing.calls[i].op = "add_hash"
    /\ writing.calls[Len(writing.calls)].op \in {"add_hash", "delete_range"}

(***************************************************************************)
(* The pd App (pd/src/app.rs): CheckTx, BeginBlock, DeliverTx, EndBlock    *)
(* and Commit, one request at a time.  A transaction is what it reveals:   *)
(* its spent nullifiers; whether its signatures and proofs verify is an    *)
(* input of the request.                                                   *)
(***************************************************************************)
NumNullifiers == 2
MaxAppRequests == 4
MaxBlocks == 2
\* The number of recent anchors kept (64 in the source)
NUM_RECENT_ANCHORS == 2
MaxServiceCalls == 6

Nullifiers == 1..NumNullifiers
Transactions == [spent_nullifiers : SUBSET Nullifiers]

NoTransaction == [spent_nullifiers |-> {}]
NoResponse == [request |-> "none", kind |-> "none", transaction |-> NoTransaction, code |-> 0]

\* App::new on an empty database
NewApp ==
    [phase |-> "app",
     mempool_nullifiers |-> {},     \* App::mempool_nullifiers
     nullifiers |-> {},             \* State: the nullifiers in the database
     pending_block |-> None,        \* App::pending_block
     note_commitment_tree |-> 0,    \* App::note_commitment_tree, as the number
                                    \* of note commitments it holds
     recent_anchors |-> <<>>,       \* App::recent_anchors, newest first
     abci |-> "start",              \* where the consensus engine is in the order
                                    \* InitChain (BeginBlock DeliverTx* EndBlock
                                    \* Commit)*
     roots |-> <<>>,                \* history: the roots committed, newest first
     height |-> 0,                  \* history: number of blocks begun
     requests |-> 0,                \* history: number of CheckTx / DeliverTx
     accepted |-> <<>>,             \* history: transactions CheckTx(New) accepted
     committed |-> <<>>,            \* history: transactions of the committed blocks
     response |-> NoResponse,
     completion_tracker |-> [waiting |-> FALSE, rx |-> 0, signal |-> "none"],
                                    \* App::completion_tracker: waiting, the
                                    \* call whose sender pairs with its
                                    \* receiver, and the state of that channel
     futures |-> {},                \* the response futures not yet completed
     ready |-> FALSE,               \* poll_ready has returned Ready since the
                                    \* last call
     calls |-> 0,                   \* history: number of Service::call
     called |-> "none",             \* history: the request of the last call
     dropped |-> 0,                 \* history: tracked futures dropped
     panic |-> "none"]              \* which expectation has failed

\* PendingBlock::new
NewPendingBlock(note_commitment_tree) ==
    [spent_nullifiers |-> {}, transactions |-> <<>>, ended |-> FALSE,
     note_commitment_tree |-> note_commitment_tree]

\* PendingBlock::add_transaction
add_transaction(block, transaction) ==
    [block EXCEPT !.spent_nullifiers = @ \cup transaction.spent_nullifiers,
                  !.transactions = Append(@, transaction),
                  !.note_commitment_tree = @ + 1]

\* The root of a note commitment tree: the tree grows by appending, so the
\* number of commitments stands for its contents
root2(note_commitment_tree) == <<"root", note_commitment_tree>>

\* The nullifiers of a set in the order a loop visits them
RECURSIVE InOrder(_)
InOrder(nullifiers) ==
    IF nullifiers = {} THEN <<>>
    ELSE LET first == CHOOSE n \in nullifiers : \A m \in nullifiers : n <= m
         IN  <<first>> \o InOrder(nullifiers \ {first})

\* Mutant: the loop looks a nullifier up in the mempool set and never adds
\* it
AddToMempool_LookupOnly(mempool_nullifiers, spent) ==
    [ok |-> \A i \in DOMAIN spent : spent[i] \notin mempool_nullifiers,
     mempool_nullifiers |-> mempool_nullifiers]

\* check_tx, the loop over the spent nullifiers of a new transaction: stop
\* with an error at the first one the mempool set holds, add the others
RECURSIVE AddToMempool(_, _)
AddToMempool(mempool_nullifiers, spent) ==
    IF spent = <<>> THEN [ok |-> TRUE, mempool_nullifiers |-> mempool_nullifiers]
    ELSE IF Head(spent) \in mempool_nullifiers
         THEN [ok |-> FALSE, mempool_nullifiers |-> mempool_nullifiers]
         ELSE AddToMempool(mempool_nullifiers \cup {Head(spent)}, Tail(spent))

\* state.nullifier(n).is_some() for some spent nullifier
InDatabase(self, transaction) == transaction.spent_nullifiers \cap self.nullifiers # {}

\* App::check_tx
check_tx(self, kind, transaction, stateless, stateful) ==
    LET Checked(added) ==
            IF ~stateless THEN [res |-> "Err", app |-> self]
            ELSE IF kind = "New" /\ ~added.ok
                 THEN [res |-> "Err",
                       app |-> [self EXCEPT !.mempool_nullifiers = added.mempool_nullifiers]]
            ELSE LET app1 == IF kind = "New"
                             THEN [self EXCEPT !.mempool_nullifiers = added.mempool_nullifiers]
                             ELSE self
                 IN  IF InDatabase(self, transaction) \/ ~stateful
                     THEN [res |-> "Err", app |-> app1]
                     ELSE [res |-> "Ok", app |-> app1]
    IN  Checked(AddToMempool(self.mempool_nullifiers, InOrder(transaction.spent_nullifiers)))

\* Mutant: DeliverTx looks only at the database
SpentInBlock_Never(block, transaction) == FALSE

\* deliver_tx: a nullifier that was already spent in this block
SpentInBlock(block, transaction) ==
    transaction.spent_nullifiers \cap block.spent_nullifiers # {}

\* App::deliver_tx
deliver_tx(self, transaction, stateless, stateful) ==
    IF \/ ~stateless
       \/ InDatabase(self, transaction)
       \/ SpentInBlock(Unwrap(self.pending_block), transaction)
       \/ ~stateful
    THEN [res |-> "Err", app |-> self]
    ELSE [res |-> "Ok",
          app |-> [self EXCEPT !.pending_block =
                      Some(add_transaction(Unwrap(self.pending_block), transaction))]]

\* Mutant: the window only grows
PushAnchor_NoPop(recent_anchors, anchor) == <<anchor>> \o recent_anchors

\* recent_anchors.push_front(anchor), and pop_back once more than
\* NUM_RECENT_ANCHORS are held
PushAnchor(recent_anchors, anchor) ==
    LET pushed == <<anchor>> \o recent_anchors
    IN  IF Len(pushed) > NUM_RECENT_ANCHORS THEN SubSeq(pushed, 1, Len(pushed) - 1)
        ELSE pushed

\* Mutant: the pending block stays in place
commit_call_KeepsPending(self) ==
    LET pending_block == Unwrap(self.pending_block)
    IN  [self EXCEPT !.mempool_nullifiers = @ \ pending_block.spent_nullifiers,
                     !.note_commitment_tree = pending_block.note_commitment_tree,
                     !.recent_anchors =
                         PushAnchor(@, root2(pending_block.note_commitment_tree))]

\* App::commit, the part that runs in the call: the pending block is taken,
\* its nullifiers leave the mempool set, its tree becomes the committed tree
\* and its root the newest anchor
commit_call(self) ==
    LET pending_block == Unwrap(self.pending_block)
    IN  [self EXCEPT !.pending_block = None,
                     !.mempool_nullifiers = @ \ pending_block.spent_nullifiers,
                     !.note_commitment_tree = pending_block.note_commitment_tree,
                     !.recent_anchors =
                         PushAnchor(@, root2(pending_block.note_commitment_tree))]

\* State::commit_block, which the future of App::commit awaits
commit_block(self, pending_block) ==
    [self EXCEPT !.nullifiers = @ \cup pending_block.spent_nullifiers,
                 !.committed = @ \o pending_block.transactions]

\* App::commit with its future run to completion
commit(self) ==
    commit_block(commit_call(self), Unwrap(self.pending_block))

\* App::init_genesis: the genesis block holds the genesis transaction, which
\* spends nothing
GenesisBlock(self) ==
    add_transaction(NewPendingBlock(self.note_commitment_tree), NoTransaction)

\* App::init_genesis: the genesis block is committed at once
init_genesis(self) ==
    commit([self EXCEPT !.pending_block = Some(GenesisBlock(self))])

\* History: the root a request that ran App::commit has committed
Committed(self) ==
    [self EXCEPT !.roots = <<root2(self.note_commitment_tree)>> \o @,
                 !.abci = "idle"]

\* The response of Service::call for a CheckTx or DeliverTx
ResponseOf(request, kind, transaction, res) ==
    [request |-> request, kind |-> kind, transaction |-> transaction,
     code |-> IF res = "Ok" THEN 0 ELSE 1]

AppUnchanged ==
    UNCHANGED <<treeVars, tierVars, writing, view>>

\* `.expect("pending_block must be Some ...")`
ExpectPendingBlock == panicked' = ~IsSome(app.pending_block)

InitChain ==
    /\ ~panicked
    /\ app.phase = "app"
    /\ app.abci = "start"
    /\ app' = [Committed(init_genesis(app)) EXCEPT
                  !.response = ResponseOf("InitChain", "none", NoTransaction, "Ok")]
    /\ UNCHANGED panicked
    /\ AppUnchanged

CheckTx(kind, transaction, stateless, stateful) ==
    /\ ~panicked
    /\ app.phase = "app"
    /\ app.abci # "start"
    /\ app.requests < MaxAppRequests
    /\ LET Returned(r) ==
               app' = [r.app EXCEPT
                          !.requests = @ + 1,
                          !.accepted = IF r.res = "Ok" /\ kind = "New"
                                       THEN Append(@, transaction) ELSE @,
                          !.response = ResponseOf("CheckTx", kind, transaction, r.res)]
       IN  Returned(check_tx(app, kind, transaction, stateless, stateful))
    /\ UNCHANGED panicked
    /\ AppUnchanged

BeginBlock ==
    /\ ~panicked
    /\ app.phase = "app"
    /\ app.abci = "idle"
    /\ app.height < MaxBlocks
    /\ app' = [app EXCEPT !.pending_block =
                              Some(NewPendingBlock(app.note_commitment_tree)),
                          !.abci = "block",
                          !.height = @ + 1,
                          !.response = ResponseOf("BeginBlock", "none", NoTransaction, "Ok")]
    /\ UNCHANGED panicked
    /\ AppUnchanged

DeliverTx(transaction, stateless, stateful) ==
    /\ ~panicked
    /\ app.phase = "app"
    /\ app.abci = "block"
    /\ app.requests < MaxAppRequests
    /\ ExpectPendingBlock
    /\ LET Returned(r) ==
               app' = [r.app EXCEPT !.requests = @ + 1,
                                    !.response = ResponseOf("DeliverTx", "none", transaction, r.res)]
       IN  IF IsSome(app.pending_block)
           THEN Returned(deliver_tx(app, transaction, stateless, stateful))
           ELSE app' = app
    /\ AppUnchanged

AppEndBlock ==
    /\ ~panicked
    /\ app.phase = "app"
    /\ app.abci = "block"
    /\ ExpectPendingBlock
    /\ app' = IF IsSome(app.pending_block)
              THEN [app EXCEPT !.pending_block = Some([Unwrap(@) EXCEPT !.ended = TRUE]),
                               !.abci = "ended",
                               !.response = ResponseOf("EndBlock", "none", NoTransaction, "Ok")]
              ELSE app
    /\ AppUnchanged

Commit ==
    /\ ~panicked
    /\ app.phase = "app"
    /\ app.abci = "ended"
    /\ ExpectPendingBlock
    /\ app' = IF IsSome(app.pending_block)
              THEN [Committed(commit(app)) EXCEPT
                       !.response = ResponseOf("Commit", "none", NoTransaction, "Ok")]
              ELSE app
    /\ AppUnchanged

AppInit ==
    /\ TreeIdle
    /\ IdleTier
    /\ writing = NotWriting
    /\ app = NewApp
    /\ view = NoView
    /\ panicked = FALSE

AppNext ==
    \/ InitChain
    \/ \E kind \in {"New", "Recheck"}, transaction \in Transactions,
          stateless \in BOOLEAN, stateful \in BOOLEAN :
            CheckTx(kind, transaction, stateless, stateful)
    \/ BeginBlock
    \/ \E transaction \in Transactions, stateless \in BOOLEAN, stateful \in BOOLEAN :
            DeliverTx(transaction, stateless, stateful)
    \/ AppEndBlock
    \/ Commit

AppSpec == AppInit /\ [][AppNext]_vars

\* Whether no two transactions of a sequence reveal the same nullifier
NoDoubleSpend(transactions) ==
    \A i, j \in DOMAIN transactions :
        i # j => transactions[i].spent_nullifiers \cap transactions[j].spent_nullifiers = {}

\* The nullifiers revealed by the transactions of a sequence
Revealed(transactions) ==
    UNION {transactions[i].spent_nullifiers : i \in DOMAIN transactions}

\* C28: CheckTx with kind New rejects a transaction that reveals a
\* nullifier which a transaction accepted into the mempool or a committed
\* transaction has revealed, so no two transactions accepted by CheckTx(New)
\* reveal the same nullifier, and none reveals a nullifier that was in the
\* database when it was checked.
C28_MempoolExclusion ==
    [][/\ (/\ app'.requests > app.requests
           /\ app'.response.request = "CheckTx"
           /\ app'.response.kind = "New"
           /\ app'.response.transaction.spent_nullifiers \cap
                  (Revealed(app.accepted) \cup app.nullifiers) # {})
              => app'.response.code = 1 /\ app'.accepted = app.accepted
       /\ NoDoubleSpend(app'.accepted)
       /\ Len(app'.accepted) > Len(app.accepted) =>
             app'.accepted[Len(app'.accepted)].spent_nullifiers \cap app.nullifiers = {}]_vars

\* A transaction is accepted by CheckTx(New) after an earlier accepted one
\* has been committed, and a third that reveals a committed nullifier has
\* just been rejected
C28_Witness ==
    /\ Len(app.accepted) = 2
    /\ app.accepted[1].spent_nullifiers # {}
    /\ app.accepted[2].spent_nullifiers # {}
    /\ app.accepted[1].spent_nullifiers \subseteq app.nullifiers
    /\ app.response.request = "CheckTx" /\ app.response.kind = "New"
    /\ app.response.code = 1
    /\ app.response.transaction.spent_nullifiers \cap app.nullifiers # {}
    /\ app.response.transaction.spent_nullifiers \cap app.mempool_nullifiers = {}

\* C29: DeliverTx ignores invalid transactions: a transaction that reveals a
\* nullifier that is in the database, or that an earlier transaction
\* delivered in the same block has spent, gets an error response and leaves
\* the pending block as it was; no two transactions of the committed blocks
\* and the pending block spend the same nullifier.
C29_DeliverIgnoresInvalid ==
    [][/\ (/\ app'.requests > app.requests
           /\ app'.response.request = "DeliverTx"
           /\ app'.response.transaction.spent_nullifiers \cap
                  (app.nullifiers \cup Revealed(Unwrap(app.pending_block).transactions)) # {})
              => /\ app'.response.code = 1
                 /\ app'.pending_block = app.pending_block
       /\ NoDoubleSpend(app'.committed \o
                        (IF IsSome(app'.pending_block)
                         THEN Unwrap(app'.pending_block).transactions ELSE <<>>))]_vars

\* A block with a transaction has been committed, and a transaction that
\* spends a nullifier of the block being delivered has just been rejected
C29_Witness ==
    /\ app.committed # <<>>
    /\ IsSome(app.pending_block)
    /\ Unwrap(app.pending_block).transactions # <<>>
    /\ app.response.request = "DeliverTx"
    /\ app.response.code = 1
    /\ app.response.transaction.spent_nullifiers \cap app.nullifiers = {}
    /\ app.response.transaction.spent_nullifiers \cap
           Unwrap(app.pending_block).spent_nullifiers # {}

(***************************************************************************)
(* The view Storage (view/src/storage.rs): the height of the last scanned  *)
(* block, in the sync_height row of the database and, for empty blocks,    *)
(* in uncommitted_height                                                   *)
(***************************************************************************)
MaxHeight == 4
MaxViewCalls == 5

Heights == 0..MaxHeight

NoViewCall == [op |-> "none", height |-> 0, res |-> "none"]

\* Storage::initialize: -1 in sync_height stands for "before genesis"
NewStorage ==
    [phase |-> "storage",
     sync_height |-> 0 - 1,         \* the row of the sync_height table
     uncommitted_height |-> None,   \* Storage::uncommitted_height
     accepted |-> <<>>,             \* history: heights of the accepted blocks
     calls |-> 0,                   \* history: number of calls
     call |-> NoViewCall]           \* the last call and what it returned

\* Storage::last_sync_height: the uncommitted height if there is one, else
\* the row of the database, a negative value read as None
last_sync_height(self) ==
    IF IsSome(self.uncommitted_height) THEN self.uncommitted_height
    ELSE IF self.sync_height < 0 THEN None ELSE Some(self.sync_height)

\* Storage::record_empty_block; the database may fail the query of
\* last_sync_height
record_empty_block(self, height, fails) ==
    LET last_sync == last_sync_height(self)
    IN  IF ~IsSome(self.uncommitted_height) /\ fails THEN [res |-> "Err", this |-> self]
        ELSE IF ~IsSome(last_sync) THEN [res |-> "Err", this |-> self]
        ELSE IF height # Unwrap(last_sync) + 1 THEN [res |-> "Err", this |-> self]
        ELSE [res |-> "Ok", this |-> [self EXCEPT !.uncommitted_height = Some(height)]]

\* Mutant: the uncommitted height outlives the commit
record_block_KeepsUncommitted(self, height, fails) ==
    LET last_sync == last_sync_height(self)
        correct_height == IF IsSome(last_sync) THEN height = Unwrap(last_sync) + 1
                          ELSE height = 0
    IN  IF ~correct_height \/ fails THEN [res |-> "Err", this |-> self]
        ELSE [res |-> "Ok", this |-> [self EXCEPT !.sync_height = height]]

\* Storage::record_block, as far as the height goes: the database may fail
\* any statement or the commit, and the transaction is then rolled back
record_block(self, height, fails) ==
    LET last_sync == last_sync_height(self)
        correct_height == IF IsSome(last_sync) THEN height = Unwrap(last_sync) + 1
                          ELSE height = 0
    IN  IF ~correct_height \/ fails THEN [res |-> "Err", this |-> self]
        ELSE [res |-> "Ok",
              this |-> [self EXCEPT !.sync_height = height, !.uncommitted_height = None]]

\* What a call leaves in the history
Called(op, height, r) ==
    [r.this EXCEPT !.calls = @ + 1,
                   !.accepted = IF r.res = "Ok" THEN Append(@, height) ELSE @,
                   !.call = [op |-> op, height |-> height, res |-> r.res]]

ViewUnchanged ==
    UNCHANGED <<treeVars, tierVars, writing, app, panicked>>

RecordBlock(height, fails) ==
    /\ view.phase = "storage"
    /\ view.calls < MaxViewCalls
    /\ view' = Called("record_block", height, record_block(view, height, fails))
    /\ ViewUnchanged

RecordEmptyBlock(height, fails) ==
    /\ view.phase = "storage"
    /\ view.calls < MaxViewCalls
    /\ view' = Called("record_empty_block", height, record_empty_block(view, height, fails))
    /\ ViewUnchanged

ViewInit ==
    /\ TreeIdle
    /\ IdleTier
    /\ writing = NotWriting
    /\ app = NoApp
    /\ view = NewStorage
    /\ panicked = FALSE

ViewNext ==
    \/ \E height \in Heights, fails \in BOOLEAN : RecordBlock(height, fails)
    \/ \E height \in Heights, fails \in BOOLEAN : RecordEmptyBlock(height, fails)

ViewSpec == ViewInit /\ [][ViewNext]_vars

\* Whether a height follows the last synced one for a call
FollowsLast(self, op, height) ==
    IF IsSome(last_sync_height(self)) THEN height = Unwrap(last_sync_height(self)) + 1
    ELSE op = "record_block" /\ height = 0

\* C30: scanned blocks are recorded strictly in order.  record_block and
\* record_empty_block accept a block only when its height is
\* last_sync_height() + 1 (record_block also height 0 when nothing has been
\* synced, where record_empty_block rejects); otherwise they return an error
\* and change nothing.  After any sequence of calls last_sync_height() has
\* advanced by one per accepted block and is the height of the last
\* accepted block.
C30_BlocksInOrder ==
    [][view'.calls > view.calls =>
          /\ view'.call.res = "Ok" =>
                /\ FollowsLast(view, view'.call.op, view'.call.height)
                /\ last_sync_height(view') = Some(view'.call.height)
          /\ view'.call.res = "Err" =>
                /\ view'.sync_height = view.sync_height
                /\ view'.uncommitted_height = view.uncommitted_height
          /\ ~FollowsLast(view, view'.call.op, view'.call.height) => view'.call.res = "Err"
          /\ last_sync_height(view') =
                IF view'.accepted = <<>> THEN None
                ELSE Some(view'.accepted[Len(view'.accepted)])
          /\ \A i \in DOMAIN view'.accepted : view'.accepted[i] = i - 1]_vars

\* A block with notes is recorded after empty blocks, whose heights were
\* only in uncommitted_height, and after a call with a wrong height
C30_Witness ==
    /\ view.call.op = "record_block" /\ view.call.res = "Ok"
    /\ view.call.height >= 2
    /\ Len(view.accepted) < view.calls
    /\ view.sync_height = view.call.height
    /\ ~IsSome(view.uncommitted_height)

\* C37: a rejected CheckTx leaves the mempool nullifier set unchanged:
\* whenever check_tx returns an error, mempool_nullifiers afterwards holds
\* exactly what it held before the request.
C37_RejectedLeavesMempool ==
    [][(/\ app'.requests > app.requests
        /\ app'.response.request = "CheckTx"
        /\ app'.response.code = 1)
          => app'.mempool_nullifiers = app.mempool_nullifiers]_vars


(***************************************************************************)
(* The pending block, the committed tree and the recent anchors            *)
(***************************************************************************)
\* The request that the step has served
Served(request) == app'.response.request = request

\* The committed note commitment tree or the recent anchors change
CommittedChanges ==
    \/ app'.note_commitment_tree # app.note_commitment_tree
    \/ app'.recent_anchors # app.recent_anchors

\* pending_block is Some exactly from BeginBlock until Commit, and no
\* expectation on it has failed
PendingWhileInBlock ==
    /\ ~panicked'
    /\ IsSome(app'.pending_block) <=> app'.abci \in {"block", "ended"}

\* C35 as stated: in ABCI order pending_block is Some exactly from BeginBlock
\* until Commit, no "pending_block must be Some" expectation fails, and the
\* committed note commitment tree and the recent anchors change only at
\* Commit.  InitChain commits the genesis block and changes both.
C35_ChangesOnlyAtCommit ==
    [][/\ PendingWhileInBlock
       /\ CommittedChanges => Served("Commit")]_vars

\* C35, amended: in ABCI order pending_block is Some exactly from BeginBlock
\* until Commit, no "pending_block must be Some" expectation fails, and the
\* committed note commitment tree and the recent anchors change only where
\* App::commit runs, at Commit and in InitChain's commit of the genesis
\* block, never at DeliverTx (nor at CheckTx, BeginBlock or EndBlock).
C35_PendingBlockLifecycle ==
    [][/\ PendingWhileInBlock
       /\ CommittedChanges => (Served("Commit") \/ Served("InitChain"))]_vars

\* A block with a delivered transaction has been committed on top of the
\* genesis block
C35_Witness ==
    /\ app.phase = "app"
    /\ app.response.request = "Commit"
    /\ ~IsSome(app.pending_block)
    /\ app.note_commitment_tree >= 2
    /\ Len(app.committed) >= 2

\* C40: after every commit recent_anchors holds at most NUM_RECENT_ANCHORS
\* roots, its front is the root of the note commitment tree just committed,
\* and it is the newest committed roots, newest first (the oldest is dropped
\* when the window is full).
C40_AnchorWindow ==
    app.phase = "app" =>
        /\ Len(app.recent_anchors) <= NUM_RECENT_ANCHORS
        /\ app.roots # <<>> =>
               app.recent_anchors[1] = root2(app.note_commitment_tree)
        /\ app.recent_anchors =
               SubSeq(app.roots, 1,
                      IF Len(app.roots) < NUM_RECENT_ANCHORS THEN Len(app.roots)
                      ELSE NUM_RECENT_ANCHORS)

\* More roots than the window holds have been committed, all different
C40_Witness ==
    /\ app.phase = "app"
    /\ Len(app.roots) > NUM_RECENT_ANCHORS
    /\ \A i, j \in 1..Len(app.roots) : i # j => app.roots[i] # app.roots[j]

(***************************************************************************)
(* The tower Service of the App: poll_ready, call and the response futures *)
(*                                                                         *)
(* A call runs the synchronous part of its handler and leaves a response   *)
(* future; the body of the future runs when the future is resolved, or     *)
(* never when it is dropped.  The consensus engine sends its requests in   *)
(* ABCI order without waiting for the responses, and the caller of the     *)
(* service calls only after poll_ready has returned Ready.  A future gives *)
(* up what it holds (its sender, its clone of the pending block) in one    *)
(* step.                                                                   *)
(***************************************************************************)
\* A response future
Future(id, request, kind, transaction, stateless, stateful, block, height, tracked) ==
    [id |-> id, request |-> request, kind |-> kind, transaction |-> transaction,
     stateless |-> stateless, stateful |-> stateful, block |-> block,
     height |-> height, tracked |-> tracked, stage |-> "start"]

PlainFuture(id, request, height, tracked) ==
    Future(id, request, "none", NoTransaction, TRUE, TRUE, None, height, tracked)

\* Mutant: DeliverTx is not processed sequentially
Tracks_NotDeliverTx(request) == request \in {"CheckTx", "Commit", "InitChain"}

\* The requests whose handler calls completion_tracker.start()
Tracks(request) == request \in {"CheckTx", "DeliverTx", "Commit", "InitChain"}

\* CompletionTracker::start for call number id
start(self, id) ==
    IF self.completion_tracker.waiting THEN [self EXCEPT !.panic = "assert"]
    ELSE [self EXCEPT !.completion_tracker =
                          [waiting |-> TRUE, rx |-> id, signal |-> "open"]]

\* Mutant: ready whatever the tracker waits for
poll_ready_AlwaysReady(completion_tracker) ==
    [res |-> "Ready", completion_tracker |-> completion_tracker]

\* CompletionTracker::poll_ready
poll_ready(completion_tracker) ==
    IF ~completion_tracker.waiting
    THEN [res |-> "Ready", completion_tracker |-> completion_tracker]
    ELSE IF completion_tracker.signal = "open"
    THEN [res |-> "Pending", completion_tracker |-> completion_tracker]
    ELSE [res |-> "Ready",
          completion_tracker |-> [completion_tracker EXCEPT !.waiting = FALSE]]

\* finished_signal.send(()), or the drop of finished_signal
Signal(self, future, signal) ==
    IF /\ future.tracked
       /\ self.completion_tracker.rx = future.id
       /\ self.completion_tracker.signal = "open"
    THEN [self EXCEPT !.completion_tracker.signal = signal]
    ELSE self

\* The futures of the requests that are processed sequentially, up to their
\* signal: those of CheckTx, DeliverTx and Commit, and that of InitChain
\* while it commits the genesis block
InFlight(self) ==
    {f \in self.futures :
        \/ f.request \in {"CheckTx", "DeliverTx", "Commit"}
        \/ f.request = "InitChain" /\ f.stage = "start"}

\* Arc::strong_count of the pending block: the App's reference and the clone
\* in each DeliverTx future of this block
strong_count(self) ==
    1 + Cardinality({f \in self.futures :
                        f.request = "DeliverTx" /\ f.height = self.height})

\* The response future of call number id
FutureOf(self, id) == CHOOSE f \in self.futures : f.id = id

\* Service::call: what every call does to the bookkeeping
Call(self, request) ==
    [self EXCEPT !.ready = FALSE, !.calls = @ + 1, !.called = request]

\* The state after a step of the service, and whether it panicked
Serve(after) ==
    /\ app' = after
    /\ panicked' = (after.panic # "none")
    /\ AppUnchanged

CanCall ==
    /\ ~panicked
    /\ app.phase = "app"
    /\ app.ready
    /\ app.calls < MaxServiceCalls

PollReady ==
    /\ ~panicked
    /\ app.phase = "app"
    /\ LET Returned(r) ==
               Serve([app EXCEPT !.completion_tracker = r.completion_tracker,
                                 !.ready = (r.res = "Ready")])
       IN  Returned(poll_ready(app.completion_tracker))

CallInfo ==
    /\ CanCall
    /\ Serve([Call(app, "Info") EXCEPT
                 !.futures = @ \cup {PlainFuture(app.calls + 1, "Info", app.height, FALSE)}])

CallInitChain ==
    /\ CanCall
    /\ app.abci = "start"
    /\ LET genesis == [app EXCEPT !.pending_block = Some(GenesisBlock(app))]
           future == Future(app.calls + 1, "InitChain", "none", NoTransaction, TRUE, TRUE,
                            Some(GenesisBlock(app)), app.height, Tracks("Commit"))
       IN  Serve([Call(start(Committed(commit_call(genesis)), app.calls + 1), "InitChain")
                     EXCEPT !.futures = @ \cup {future}])

CallCheckTx(kind, transaction, stateless, stateful) ==
    /\ CanCall
    /\ app.abci # "start"
    /\ LET future == Future(app.calls + 1, "CheckTx", kind, transaction, stateless,
                            stateful, None, app.height, Tracks("CheckTx"))
           started == IF Tracks("CheckTx") THEN start(app, app.calls + 1) ELSE app
       IN  Serve([Call(started, "CheckTx") EXCEPT !.futures = @ \cup {future}])

CallBeginBlock ==
    /\ CanCall
    /\ app.abci = "idle"
    /\ app.height < MaxBlocks
    /\ Serve([Call(app, "BeginBlock") EXCEPT
                 !.pending_block = Some(NewPendingBlock(app.note_commitment_tree)),
                 !.abci = "block",
                 !.height = @ + 1])

CallDeliverTx(transaction, stateless, stateful) ==
    /\ CanCall
    /\ app.abci = "block"
    /\ LET future == Future(app.calls + 1, "DeliverTx", "none", transaction, stateless,
                            stateful, None, app.height, Tracks("DeliverTx"))
           started == IF Tracks("DeliverTx") THEN start(app, app.calls + 1) ELSE app
       IN  Serve([Call(started, "DeliverTx") EXCEPT !.futures = @ \cup {future}])

CallEndBlock ==
    /\ CanCall
    /\ app.abci = "block"
    /\ Serve(IF IsSome(app.pending_block)
             THEN [Call(app, "EndBlock") EXCEPT
                      !.pending_block = Some([Unwrap(@) EXCEPT !.ended = TRUE]),
                      !.abci = "ended"]
             ELSE [app EXCEPT !.panic = "expect"])

CallCommit ==
    /\ CanCall
    /\ app.abci = "ended"
    /\ LET future == Future(app.calls + 1, "Commit", "none", NoTransaction, TRUE, TRUE,
                            app.pending_block, app.height, Tracks("Commit"))
       IN  Serve(IF ~IsSome(app.pending_block) THEN [app EXCEPT !.panic = "expect"]
                 ELSE IF strong_count(app) > 1 THEN [app EXCEPT !.panic = "try_unwrap"]
                 ELSE [Call(start(Committed(commit_call(app)), app.calls + 1), "Commit")
                          EXCEPT !.futures = @ \cup {future}])

\* The body of a response future runs to its end, or for InitChain to the
\* end of its commit and then to its own end
Resolve(id) ==
    /\ ~panicked
    /\ app.phase = "app"
    /\ \E f \in app.futures : f.id = id
    /\ LET future == FutureOf(app, id)
           rest == app.futures \ {future}
           Done(after, res) ==
               Serve([Signal(after, future, "sent") EXCEPT
                         !.futures = rest,
                         !.response = ResponseOf(future.request, future.kind,
                                                 future.transaction, res)])
           Checked(r) ==
               Done([r.app EXCEPT !.accepted =
                                      IF r.res = "Ok" /\ future.kind = "New"
                                      THEN Append(@, future.transaction) ELSE @],
                    r.res)
           Delivered(r) == Done(r.app, r.res)
       IN  CASE future.request = "Info" -> Done(app, "Ok")
             [] future.request = "CheckTx" ->
                    Checked(check_tx(app, future.kind, future.transaction,
                                     future.stateless, future.stateful))
             [] future.request = "DeliverTx" ->
                    IF IsSome(app.pending_block)
                    THEN Delivered(deliver_tx(app, future.transaction,
                                              future.stateless, future.stateful))
                    ELSE Serve([app EXCEPT !.panic = "expect"])
             [] future.request = "Commit" ->
                    Done(commit_block(app, Unwrap(future.block)), "Ok")
             [] future.request = "InitChain" /\ future.stage = "start" ->
                    Serve([Signal(commit_block(app, Unwrap(future.block)), future, "sent")
                              EXCEPT !.futures =
                                         rest \cup {[future EXCEPT !.stage = "genesis"]}])
             [] future.request = "InitChain" /\ future.stage = "genesis" ->
                    Done(app, "Ok")

\* The caller drops a response future before it has completed
DropFuture(id) ==
    /\ ~panicked
    /\ app.phase = "app"
    /\ \E f \in app.futures : f.id = id
    /\ LET Dropped(future) ==
               Serve([Signal(app, future, "closed") EXCEPT
                         !.futures = @ \ {future},
                         !.dropped = IF future.request \in {"CheckTx", "DeliverTx", "Commit"}
                                     THEN @ + 1 ELSE @])
       IN  Dropped(FutureOf(app, id))

\* The transactions sent to the service: one that spends a note and one that
\* spends none
ServiceTransactions == {[spent_nullifiers |-> {1}], NoTransaction}

ServiceNext ==
    \/ PollReady
    \/ CallInfo
    \/ CallInitChain
    \/ \E kind \in {"New", "Recheck"}, transaction \in ServiceTransactions,
          stateful \in BOOLEAN :
            CallCheckTx(kind, transaction, TRUE, stateful)
    \/ CallBeginBlock
    \/ \E transaction \in ServiceTransactions, stateful \in BOOLEAN :
            CallDeliverTx(transaction, TRUE, stateful)
    \/ CallEndBlock
    \/ CallCommit
    \/ \E id \in 1..MaxServiceCalls : Resolve(id)
    \/ \E id \in 1..MaxServiceCalls : DropFuture(id)

ServiceSpec == AppInit /\ [][ServiceNext]_vars

\* A call has been made in this step
Calls == app'.calls > app.calls

\* C34: when call follows a Ready from poll_ready, no future of a CheckTx,
\* DeliverTx or Commit (nor the commit of InitChain) is in flight when a
\* request is processed, at most one is in flight at any time, the assertion
\* of CompletionTracker::start never fails, and with none in flight (the
\* last one completed or dropped) poll_ready returns Ready.
C34_SequentialProcessing ==
    [][/\ app'.panic # "assert"
       /\ Cardinality(InFlight(app')) <= 1
       /\ Calls => InFlight(app) = {}
       /\ InFlight(app) = {} => poll_ready(app.completion_tracker).res = "Ready"]_vars

\* The future of a tracked request was dropped, poll_ready has returned
\* Ready after that and the next request has been called
C34_Witness ==
    /\ app.phase = "app"
    /\ app.dropped >= 1
    /\ app.called = "DeliverTx"
    /\ InFlight(app) # {}
    /\ \E f \in app.futures : f.request = "Info"

\* C38: when Commit is called, no DeliverTx future holds a clone of the
\* pending block: the strong count is one, Arc::try_unwrap succeeds and no
\* step panics for it.
C38_UniquelyOwnedAtCommit ==
    [][/\ app'.panic # "try_unwrap"
       /\ (Calls /\ app'.called = "Commit") => strong_count(app) = 1]_vars

\* Commit has taken a block whose transaction a DeliverTx future has added
C38_Witness ==
    /\ app.phase = "app"
    /\ \E f \in app.futures :
          /\ f.request = "Commit"
          /\ Unwrap(f.block).transactions # <<>>

(***************************************************************************)
(* The forgotten stamps along the path of a forget (Spec)                  *)
(***************************************************************************)
\* The nodes of a tree on the path from the root to a position
OnPath(t, position) ==
    {node \in NodesOf(TreeStructure(t)) :
        Covers(<<node.position, node.height>>, position)}

\* No node that is in both trees reports a lower stamp in the second
StampsKept(before, after) ==
    \A old \in NodesOf(TreeStructure(before)), new \in NodesOf(TreeStructure(after)) :
        (old.position = new.position /\ old.height = new.height) =>
            new.forgotten >= old.forgotten

\* C33: when forget(c) succeeds at tree version v, every node on the path
\* from the root to c's position, a tier collapsed into a Hash included,
\* afterwards reports a stamp of at least v; no step lowers the stamp of a
\* node; and the version grows by exactly one with a forget and by nothing
\* otherwise.
C33_StampsFollowForget ==
    [][/\ \A c \in DOMAIN tree.index :
            (last'.op = "forget" /\ last'.c = c /\ last'.res = "true") =>
                /\ tree'.forgotten = ForgottenNext(tree.forgotten)
                /\ \A node \in OnPath(tree', tree.index[c]) :
                      node.forgotten >= tree.forgotten
       /\ StampsKept(tree, tree')
       /\ tree'.forgotten \in {tree.forgotten, ForgottenNext(tree.forgotten)}]_vars

(***************************************************************************)
(* The view Storage with its notes (ScanSpec): the notes table, the note   *)
(* commitment tree in memory and in the database, the scanned-notes        *)
(* broadcast channel and the futures of note_by_commitment                 *)
(*                                                                         *)
(* A note is known by a number, which is its commitment and its nullifier. *)
(* The tree is the set of commitments it witnesses.  The broadcast channel *)
(* keeps the last BroadcastCapacity values sent; a receiver that is        *)
(* further behind gets RecvError::Lagged.                                  *)
(***************************************************************************)
NumNotes == 3
\* The capacity of the scanned-notes channel (10 in the source)
BroadcastCapacity == 2
MaxScanCalls == 3

ScanNotes == 1..NumNotes
asset_id_of(note) == IF note = NumNotes THEN 2 ELSE 1
amount(note) == note
AssetIds == {1, 2}
Amounts == 0..3

\* What can fail in record_block: nothing, pool.begin, the INSERT of a new
\* note, the UPDATE or the DELETE for the first spent nullifier, the UPDATE
\* of the tree, the UPDATE of the height, or the commit
FailPoints == {"none", "begin", "insert", "update", "delete", "tree", "height", "commit"}

NoScanCall ==
    [op |-> "none", res |-> "none", output |-> <<>>, include_spent |-> FALSE,
     asset_id |-> None, amount_to_spend |-> 0, matching |-> {}, entry |-> {},
     new_notes |-> <<>>]

NoFuture == [stage |-> "none", note_commitment |-> 0, await_detection |-> FALSE,
             next |-> 0, res |-> "none", record |-> 0]

\* Storage::initialize, with the tree the worker holds
NewScanStorage ==
    [phase |-> "scan",
     notes |-> {},                  \* the notes table
     spent |-> {},                  \* the notes whose height_spent is set
     sync_height |-> 0 - 1,         \* the row of the sync_height table
     nct_bytes |-> {},              \* the row of the note_commitment_tree table
     nct |-> {},                    \* the tree in memory
     sending |-> <<>>,              \* record_block after its commit: the note
                                    \* records still to broadcast
     in_block |-> FALSE,            \* record_block is between commit and return
     sent |-> <<>>,                 \* scanned_notes_tx: every value sent
     future |-> NoFuture,           \* the future of note_by_commitment
     calls |-> 0,                   \* history: number of calls
     call |-> NoScanCall]           \* history: the last call and its result

\* A scanned block
FilteredBlock(height, new_notes, spent_nullifiers) ==
    [height |-> height, new_notes |-> new_notes, spent_nullifiers |-> spent_nullifiers]

\* Storage::notes, the rows the query selects: `height_spent IS NULL` unless
\* include_spent, `asset_id IS x'..'` if asset_id is set
Selected(self, include_spent, asset_id) ==
    {note \in self.notes :
        /\ include_spent \/ note \notin self.spent
        /\ IsSome(asset_id) => asset_id_of(note) = Unwrap(asset_id)}

\* Storage::notes, the loop over the rows
RECURSIVE Collect(_, _, _, _, _)
Collect(result, amount_cutoff, amount_to_spend, amount_total, output) ==
    IF result = <<>> THEN [amount_total |-> amount_total, output |-> output]
    ELSE LET record == Head(result)
             total == IF amount_cutoff THEN amount_total + amount(record) ELSE amount_total
         IN  IF amount_cutoff /\ total >= amount_to_spend
             THEN [amount_total |-> total, output |-> Append(output, record)]
             ELSE Collect(Tail(result), amount_cutoff, amount_to_spend, total,
                          Append(output, record))

\* Storage::notes
notes(self, include_spent, asset_id, amount_to_spend) ==
    LET result == InOrder(Selected(self, include_spent, asset_id))
        amount_cutoff == (amount_to_spend # 0) /\ ~(include_spent \/ ~IsSome(asset_id))
        collected == Collect(result, amount_cutoff, amount_to_spend, 0, <<>>)
    IN  IF collected.amount_total < amount_to_spend
        THEN [res |-> "Err", output |-> <<>>]
        ELSE [res |-> "Ok", output |-> collected.output]

\* Mutant: the note records are broadcast whatever became of the transaction
Broadcasts_Always(res, new_notes) == new_notes

\* Storage::record_block: the note records it broadcasts
Broadcasts(res, new_notes) == IF res = "Ok" THEN new_notes ELSE <<>>

\* Storage::record_block with its transaction: the rows are written in a
\* transaction that a failing statement rolls back, while nct.forget acts on
\* the tree of the caller
record_block_tx(self, scan_result, nct, fails) ==
    LET new_notes == RangeOf(scan_result.new_notes)
        inserted == self.notes \cup new_notes
        spends == InOrder(scan_result.spent_nullifiers)
        Found(nullifiers) == nullifiers \cap inserted
        Err(in_memory) == [res |-> "Err", this |-> self, nct |-> in_memory,
                      sends |-> Broadcasts("Err", scan_result.new_notes)]
        forgotten == nct \ Found(scan_result.spent_nullifiers)
    IN  IF scan_result.height # self.sync_height + 1 THEN Err(nct)
        ELSE IF fails = "begin" THEN Err(nct)
        ELSE IF fails = "insert" /\ new_notes # {} THEN Err(nct)
        ELSE IF fails = "update" /\ spends # <<>> THEN Err(nct)
        ELSE IF fails = "delete" /\ spends # <<>> THEN Err(nct \ Found({Head(spends)}))
        ELSE IF fails \in {"tree", "height", "commit"} THEN Err(forgotten)
        ELSE [res |-> "Ok",
              this |-> [self EXCEPT !.notes = inserted,
                                    !.spent = @ \cup Found(scan_result.spent_nullifiers),
                                    !.nct_bytes = forgotten,
                                    !.sync_height = scan_result.height],
              nct |-> forgotten,
              sends |-> Broadcasts("Ok", scan_result.new_notes)]

\* broadcast::Receiver::recv for a receiver that has seen `next` values
recv(sent, next) ==
    IF next >= Len(sent) THEN [res |-> "Pending", record |-> 0, next |-> next]
    ELSE IF next < Len(sent) - BroadcastCapacity
    THEN [res |-> "Lagged", record |-> 0, next |-> Len(sent) - BroadcastCapacity]
    ELSE [res |-> "Ok", record |-> sent[next + 1], next |-> next + 1]

ScanUnchanged ==
    UNCHANGED <<treeVars, tierVars, writing, app, panicked>>

ScanCalled(self, call) ==
    [self EXCEPT !.calls = @ + 1, !.call = call]

\* Storage::notes
Notes(include_spent, asset_id, amount_to_spend) ==
    /\ view.phase = "scan"
    /\ view.calls < MaxScanCalls
    /\ LET Returned(r) ==
               view' = ScanCalled(view,
                          [NoScanCall EXCEPT
                              !.op = "notes", !.res = r.res, !.output = r.output,
                              !.include_spent = include_spent, !.asset_id = asset_id,
                              !.amount_to_spend = amount_to_spend,
                              !.matching = Selected(view, include_spent, asset_id)])
       IN  Returned(notes(view, include_spent, asset_id, amount_to_spend))
    /\ ScanUnchanged

\* The worker scans a block, which adds the commitments of the new notes to
\* its tree, and calls Storage::record_block; the call runs up to its commit
ScanBlock(wrong_height, new_notes, spent_nullifiers, fails) ==
    /\ view.phase = "scan"
    /\ view.calls < MaxScanCalls
    /\ ~view.in_block
    /\ new_notes \cap view.notes = {}
    /\ LET entry == view.nct \cup new_notes
           height == IF wrong_height THEN view.sync_height + 2 ELSE view.sync_height + 1
           scan_result == FilteredBlock(height, InOrder(new_notes), spent_nullifiers)
           Returned(r) ==
               view' = ScanCalled([r.this EXCEPT !.nct = r.nct,
                                                 !.sending = r.sends,
                                                 !.in_block = (r.res = "Ok")],
                          [NoScanCall EXCEPT
                              !.op = "record_block", !.res = r.res, !.entry = entry,
                              !.new_notes = scan_result.new_notes])
       IN  Returned(record_block_tx(view, scan_result, entry, fails))
    /\ ScanUnchanged

\* Storage::record_block after the commit: the loop of scanned_notes_tx.send
\* and the return
Broadcast ==
    /\ view.phase = "scan"
    /\ view.in_block \/ view.sending # <<>>
    /\ view' = [view EXCEPT !.sent = @ \o view.sending,
                            !.sending = <<>>,
                            !.in_block = FALSE]
    /\ ScanUnchanged

\* Storage::note_by_commitment: the call subscribes and returns the future
NoteByCommitment(note_commitment, await_detection) ==
    /\ view.phase = "scan"
    /\ view.calls < MaxScanCalls
    /\ view.future.stage \in {"none", "done"}
    /\ view' = ScanCalled([view EXCEPT !.future =
                              [NoFuture EXCEPT !.stage = "query",
                                               !.note_commitment = note_commitment,
                                               !.await_detection = await_detection,
                                               !.next = Len(view.sent)]],
                          [NoScanCall EXCEPT !.op = "note_by_commitment"])
    /\ ScanUnchanged

\* The future of note_by_commitment: the SELECT
FutureQuery ==
    /\ view.phase = "scan"
    /\ view.future.stage = "query"
    /\ LET future == view.future
       IN  view' = [view EXCEPT !.future =
                       IF future.note_commitment \in view.notes
                       THEN [future EXCEPT !.stage = "done", !.res = "Ok",
                                           !.record = future.note_commitment]
                       ELSE IF ~future.await_detection
                       THEN [future EXCEPT !.stage = "done", !.res = "Err"]
                       ELSE [future EXCEPT !.stage = "recv"]]
    /\ ScanUnchanged

\* The future of note_by_commitment: one turn of the loop around rx.recv()
FutureRecv ==
    /\ view.phase = "scan"
    /\ view.future.stage = "recv"
    /\ LET future == view.future
           Returned(r) ==
               /\ r.res # "Pending"
               /\ view' = [view EXCEPT !.future =
                              IF r.res = "Lagged"
                              THEN [future EXCEPT !.stage = "done", !.res = "Err",
                                                  !.next = r.next]
                              ELSE IF r.record = future.note_commitment
                              THEN [future EXCEPT !.stage = "done", !.res = "Ok",
                                                  !.record = r.record, !.next = r.next]
                              ELSE [future EXCEPT !.next = r.next]]
       IN  Returned(recv(view.sent, view.future.next))
    /\ ScanUnchanged

ScanInit ==
    /\ TreeIdle
    /\ IdleTier
    /\ writing = NotWriting
    /\ app = NoApp
    /\ view = NewScanStorage
    /\ panicked = FALSE

ScanNext ==
    \/ \E include_spent \in BOOLEAN, asset_id \in {None} \cup {Some(a) : a \in AssetIds},
          amount_to_spend \in Amounts :
            Notes(include_spent, asset_id, amount_to_spend)
    \/ \E wrong_height \in BOOLEAN, new_notes \in SUBSET ScanNotes,
          spent_nullifiers \in SUBSET ScanNotes, fails \in FailPoints :
            ScanBlock(wrong_height, new_notes, spent_nullifiers, fails)
    \/ Broadcast
    \/ \E note_commitment \in ScanNotes, await_detection \in BOOLEAN :
            NoteByCommitment(note_commitment, await_detection)
    \/ FutureQuery
    \/ FutureRecv

ScanSpec == ScanInit /\ [][ScanNext]_vars

\* A call of the operation has returned in this step
ScanReturns(op) == view'.calls > view.calls /\ view'.call.op = op

\* C31: in Storage::notes a non-zero amount_to_spend is ignored when
\* asset_id is unset or include_spent is set: the call returns all the
\* matching notes and does not fail with "requested amount .. exceeds
\* total".
C31_AmountIgnored ==
    [][(/\ ScanReturns("notes")
        /\ view'.call.amount_to_spend # 0
        /\ ~IsSome(view'.call.asset_id) \/ view'.call.include_spent)
          => /\ view'.call.res = "Ok"
             /\ RangeOf(view'.call.output) = view'.call.matching
             /\ Len(view'.call.output) = Cardinality(view'.call.matching)]_vars

\* C32: a future of note_by_commitment(c, await_detection = true) does not
\* miss a note: with a note of commitment c recorded, before the call,
\* around its query or after it, whatever else is recorded in between, the
\* future resolves to the record of that note and to nothing else.
C32_CannotMiss ==
    (/\ view.phase = "scan"
     /\ view.future.stage = "done"
     /\ view.future.await_detection
     /\ view.future.note_commitment \in view.notes)
        => /\ view.future.res = "Ok"
           /\ view.future.record = view.future.note_commitment

\* C36: record_block sends a note record on the scanned-notes channel only
\* after the transaction that stores it has committed, and a record_block
\* that returns an error broadcasts no note of its block.
C36_BroadcastAfterCommit ==
    [][/\ view'.sent # view.sent =>
            /\ view.in_block
            /\ \A i \in (Len(view.sent) + 1)..Len(view'.sent) : view'.sent[i] \in view.notes
       /\ (ScanReturns("record_block") /\ view'.call.res = "Err") =>
            /\ view'.sending = <<>>
            /\ ~view'.in_block
            /\ view'.sent = view.sent]_vars

\* Notes of a recorded block have been broadcast, and a later block with new
\* notes has failed
C36_Witness ==
    /\ view.phase = "scan"
    /\ view.sent # <<>>
    /\ view.call.op = "record_block"
    /\ view.call.res = "Err"
    /\ view.call.new_notes # <<>>
    /\ view.sync_height >= 0
    /\ RangeOf(view.call.new_notes) \cap RangeOf(view.sent) = {}

\* C39: a record_block that returns an error, for a wrong height or a
\* failing statement, leaves the tree passed to it as it was on entry, no
\* commitment forgotten, and the database and last_sync_height() as they
\* were.
C39_FailedChangesNothing ==
    [][(ScanReturns("record_block") /\ view'.call.res = "Err") =>
            /\ view'.nct = view'.call.entry
            /\ view'.nct_bytes = view.nct_bytes
            /\ view'.notes = view.notes
            /\ view'.spent = view.spent
            /\ view'.sync_height = view.sync_height]_vars
====
